------------------------------- MODULE Planner -------------------------------
(***************************************************************************)
(* The planner's stores together: the block store (Editor), the game data  *)
(* store, and the solver store, whose subscription runs after every change *)
(* of the other two (solverStore.ts).                                      *)
(*                                                                         *)
(* A change starts a timer, or starts it again; when it goes off, the plan *)
(* of that moment is solved.  What a solve gives is a function of the plan *)
(* and the data (Solver), so the store is kept as the blocks that have a   *)
(* result, the ones that failed, and whether the plan or the data changed  *)
(* since.  A solve may also throw as a whole and then stores nothing.      *)
(*                                                                         *)
(* Game data is fetched or read asynchronously, any number at a time; the  *)
(* requests are numbered (latestRequest).  In behaviours whose menu has no *)
(* "solver" the solver is idle.                                            *)
(***************************************************************************)
EXTENDS Editor

VARIABLES
    gameData,       \* game data store: "empty", "loading", "loaded" or "error"
    latestRequest,  \* the number of the newest request for data, or clearing
    inFlight,       \* the asynchronous requests that have yet to be answered
    answered,       \* a ghost: the request `gameData` tells of
    timer,          \* a solve is due
    status,         \* [type, block]: what the active view shows
    solvedIds,      \* keys of lastResults
    errors,         \* keys of lastErrors
    stale,          \* a ghost: plan or data changed after the last result
    thrown          \* a ghost: a solve threw after the last result

dataVars == <<gameData, latestRequest, inFlight, answered>>
solverVars == <<timer, status, solvedIds, errors, stale, thrown>>
allVars == <<vars, dataVars, solverVars>>

Wired == "solver" \in menu.groups
Status(type, block) == [type |-> type, block |-> block]

PlannerInit ==
    /\ Init
    /\ gameData = IF Wired THEN "loaded" ELSE "empty"
    /\ latestRequest = 0 /\ inFlight = {} /\ answered = 0
    /\ timer = FALSE /\ status = Status("idle", Nothing)
    /\ solvedIds = {} /\ errors = {} /\ stale = TRUE /\ thrown = FALSE

-----------------------------------------------------------------------------
(* The subscription (wireSolver).                                          *)

Shown(id, failed) == Status(IF id \in failed THEN "error" ELSE "solved", id)

Schedule ==
    /\ status' = Status("pending", Nothing)
    /\ timer' = TRUE
    /\ UNCHANGED <<solvedIds, errors, thrown>>

(* _selectBlock: the stored results, of another block. *)
SelectBlock(id) ==
    /\ status' = Shown(id, errors)
    /\ UNCHANGED <<timer, solvedIds, errors, thrown>>

(* A slip: a change of the active block is taken for a switch of blocks. *)
OnlySwitchedOrRemoved == active' # active /\ ~timer /\ active' \in solvedIds

(* Only another block was picked: the stored results are still right.  The *)
(* code compares identities; an equal plan that is loaded over this one has *)
(* the same results, so it is not told apart here.                         *)
OnlySwitched == blocks' = blocks /\ active' # active /\ ~timer /\ active' \in solvedIds

BlocksChanged ==
    /\ UNCHANGED dataVars
    /\ IF ~Wired THEN UNCHANGED solverVars
       ELSE /\ IF OnlySwitched THEN SelectBlock(active') ELSE Schedule
            /\ stale' = (stale \/ blocks' # blocks \/ horizon' # horizon)

Edit == Next /\ BlocksChanged

(* A block whose program fails has an error and an empty result; the others *)
(* are solved.  The result of the active block is what is shown.            *)
SetSolved ==
    /\ errors' \in {{}} \cup {{id} : id \in BlockIds}
    /\ solvedIds' = BlockIds
    /\ stale' = FALSE /\ thrown' = FALSE
    /\ status' = Shown(active, errors')

(* The horizon or the solve as a whole throws: an error of no block is      *)
(* shown, and what was stored of earlier solves stays.                      *)
Throws ==
    /\ status' = Status("error", Nothing)
    /\ thrown' = TRUE
    /\ UNCHANGED <<solvedIds, errors, stale>>

(* The timer goes off. *)
Solve ==
    /\ timer
    /\ timer' = FALSE
    /\ \/ gameData = "loaded" /\ (SetSolved \/ Throws)
       \/ /\ gameData # "loaded"
          /\ status' = Status("idle", Nothing)
          /\ UNCHANGED <<solvedIds, errors, stale, thrown>>
    /\ UNCHANGED <<vars, dataVars>>

-----------------------------------------------------------------------------
(* The game data store.                                                    *)

(* A new status of the store: the solver is told, and all data is new.     *)
DataChanges(to) ==
    /\ gameData' \in to
    /\ Schedule /\ stale' = TRUE
    /\ UNCHANGED <<blocks, active, history, horizon, next, menu, lost>>

Requested ==
    /\ MayUse("data")
    /\ latestRequest' = latestRequest + 1
    /\ answered' = latestRequest'

(* importGameDataFile, importGameDataUrl, up to their await. *)
LoadStarts ==
    /\ Requested
    /\ inFlight' = inFlight \cup {latestRequest'}
    /\ DataChanges({"loading"})

(* Mutant: an answer that was overtaken is taken for the newest. *)
LoadEndsAny(request) ==
    /\ inFlight' = inFlight \ {request}
    /\ answered' = request
    /\ DataChanges({"loaded", "error"})
    /\ UNCHANGED <<latestRequest, edits>>

(* And from there on: the text is parsed, then the number is looked at.    *)
LoadEnds(request) ==
    /\ inFlight' = inFlight \ {request}
    /\ IF request # latestRequest
       THEN UNCHANGED <<gameData, answered, vars, solverVars>>
       ELSE answered' = request /\ DataChanges({"loaded", "error"}) /\ UNCHANGED edits
    /\ UNCHANGED latestRequest

(* From text the page has. *)
ImportGameData == Requested /\ UNCHANGED inFlight /\ DataChanges({"loaded", "error"})

ClearGameData == Requested /\ UNCHANGED inFlight /\ DataChanges({"empty"})

PlannerNext ==
    \/ Edit
    \/ Solve
    \/ LoadStarts
    \/ \E request \in inFlight : LoadEnds(request)
    \/ ImportGameData
    \/ ClearGameData

PlannerSpec == PlannerInit /\ [][PlannerNext]_allVars

-----------------------------------------------------------------------------
(* Properties.                                                             *)

(* With the data loaded and no solve due, what is on screen is the result  *)
(* of the plan as it is, for the block that is active, and every block has *)
(* one: no interleaving of edits, switches, undo and loads leaves an old   *)
(* result standing.                                                        *)
(*                                                                         *)
(* The exception is a solve that threw as a whole.  Its error is shown,    *)
(* but the results of the solve before stay stored, and picking another    *)
(* block shows its old one as solved, until the next solve stores new ones *)
(* ("Switching tabs changes no block, so the stored results are already    *)
(* right" overlooks it).                                                   *)
Current == ~stale /\ solvedIds = BlockIds /\ status = Shown(active, errors)

OldStands ==
    /\ thrown
    /\ \/ status = Status("error", Nothing)
       \/ active \in solvedIds /\ status = Shown(active, errors)

ResultsCurrent ==
    Wired /\ gameData = "loaded" /\ ~timer /\ status.type # "idle" =>
        Current \/ OldStands

(* Whatever answers come late, and in whichever order: the data or the     *)
(* error in the store is of the newest request, never of one that was      *)
(* overtaken or cleared away, and the store is loading only while the      *)
(* newest request has yet to be answered.                                  *)
NewestRequestWins ==
    answered = latestRequest /\ (gameData = "loading" <=> latestRequest \in inFlight)
=============================================================================
