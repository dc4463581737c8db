# Verification of factorio-planner

TLA+ models of factorio-planner, the TLC runs that check them on small
instances, and TLAPS proofs for every value of their constants. Paths are
relative to the repository (`src/` is its root); `spec` below is
`src/spec/in-game-viewer-protocol.md`.

Contents: [the system](#the-system) · [the modules](#the-modules) ·
[the runs](#the-runs) · [checked assumptions](#checked-assumptions) ·
[bounds](#bounds) · [fairness](#fairness) · [the proofs](#the-proofs) ·
[disagreements with the docs](#where-the-code-and-its-docs-disagree) ·
[not modelled](#what-is-not-modelled) · [the plan](#the-plan)

## The system

The planner is a web page in which a player plans a Factorio factory: blocks of
recipes, connected with each other, solved together. Plans are kept in the
browser's storage, which the tabs of a browser share. A plan can be shown inside
the game: the page projects it to a *snapshot* and hands it over a WebSocket to a
*bridge*, a small program on the same machine, which carries it in UDP datagrams
over the loopback interface to a *mod* that the game runs.

```
 browser tab(s)                 bridge process                    game
 ┌───────────────┐  WebSocket  ┌───────────────────┐  UDP      ┌──────────────┐
 │ editor, solver│  snapshot → │ acceptor, one     │  P W C E →│ receiver     │
 │ viewer        │  announce → │ thread per planner│           │ answer slot  │
 │ controller    │  ← status   │ session thread    │← H R M A N│ storage, GUI │
 └───────┬───────┘  ← error    └───────────────────┘           └──────┬───────┘
   localStorage                    (no storage)                   saved game
```

What is hard in it is of four kinds. *The game decides when the mod runs*: the mod
reads its socket once per cycle of ticks and sends at most one datagram per
cycle, and a paused game does neither while the bridge goes on; what does not
fit the game's socket is lost without notice; bridge and mod forget most of what
they know when they are restarted. *Tabs share one storage* and hear of each
other's writes late; writes are refused. *Edits are undone later than they were
made*, on a plan that has changed since, while a debounced solver and loads of
game data run behind them. And *the solver iterates* over requests and supplies
that may run in circles.

### Inventory

| Component | State | Operations | What makes it correct | Modelled |
|---|---|---|---|---|
| **Bridge session** `bridge/lib/src/{bridge,driver,status}.rs` | transfer, probe budget, what the mod last said, output queue | snapshot, announce, datagram, timeout | bounded output to a silent mod; no resend on a timer; no slice outside the snapshot; stale answers change nothing; ends every transfer | yes |
| **Viewer mod** `mod/lib/receiver.lua`, `mod/control.lua` | stored snapshot (persisted), reassembly, answer slot, newest id | one handler per datagram, poll, flush, save, load | stores only what is whole and accepted; what the flush sends is true; reports leave no hole | receiver whole |
| **Delivery** bridge, UDP and mod | two queues | loss, save, load, pause, restart | implements a mailbox; bounded buffer; transfers end right | yes |
| **Wire codec** `protocol.rs`, `datagram.lua`, `ws.rs` | none | format, parse | both ends agree on every field | what fields mean |
| **Bridge server** `server.rs`, `cli.rs` | connection slots, outboxes, shutdown flags; threads | accept, publish, frame, shutdown | the first message is a status; a slow planner is dropped; slots come back; shutdown ends | the session's side of it, in `Viewer` |
| **Planner connection** `src/viewer/*.ts` | connection phase, frames in flight, timers, generation of builds | socket events, retry, send, announce, restore | a restore overwrites nothing; late builds and timers of dropped sockets change nothing; the newest plan arrives | yes |
| **Plan persistence** `store/{persistence,plansStore,sourceId}.ts`, `data/{schema,subPlanTree,blockColors}.ts` | localStorage, shared by the tabs; each tab's copy | save, switch, create, copy, delete, import, merge, migrate | no plan is lost or brought back by another tab, a refused write or a crash; old files are read as they were meant | yes |
| **Game data, solver scheduling** `store/{gameDataStore,solverStore}.ts`, `solver/solveCache.ts` | loaded data, pending solve, cached results | load, clear, edit, switch block, debounce | last load wins; what is shown is the result of what is there; a cached result equals a fresh one | yes |
| **Block store** `store/{blockStore,connections,uiStore}.ts` | blocks, rows, connections, a history per block | edits, undo, redo | connections join things that exist; the tree of sub-plans and its handles agree; undo restores | yes |
| **Solver** `solver/*.ts` | none | solve a plan | blocks in dependency order; loops of requests and supply settle or stop; the books balance | all but the simplex |
| **Game data model** `data/*.ts` | a cached horizon | research horizon, layout of the tree, defaults, fuel | the closure equals its definition; defaults can be built | without the schema |
| **Snapshot projection** `snapshot/*.ts`, `mod/lib/snapshot.lua` | none | project, validate | groups nest; requests count once | the projection |
| **Planner UI** `components/**`, `utils/*.ts` | none of its own | tables, matrix, summary, dialogs, menus, pickers, layout of the graph | the numbers add up; what is offered can be done; nothing is drawn over anything | what is computed |
| **Data export** `scripts/*.js` | none | build a bundle from a dump, patch a bundle | nothing of the game is lost; patches agree with the full export | machines, recipes, technologies, patches |
| **Mod UI** `mod/lib/*.lua`, `mod/scripts/gui.lua` | windows, build progress | render, tick a mark | marks survive a replaced snapshot | no |

Interactions: the stores call each other synchronously and through
subscriptions (a change of the block store is autosaved and starts the solve
timer; the end of a solve starts a build of the snapshot). Tabs interact through
storage events. A tab hands over a `snapshot` (and, after a reconnect, an
`announce` of an id the bridge may already hold); the bridge publishes `status`
to every tab after each change. Between bridge and mod there are nine datagrams:
ping `P`, probe `W`, chunk `C`, end of window `E` to the mod, and hello `H`,
ready `R`, missing `M`, ack `A`, refusal `N` back. A ping or a stored probe is
answered by a hello, a probe by a ready, an end of window by the list of missing
chunks, and the last chunk by an ack or a refusal. `PROJECT.json` lists the
hazards, each at its line, with the properties that cover it.

## The modules

*Machines*, with state and actions:

| Module | Code | What it is |
|---|---|---|
| `Wire`, `Bridge` (`_proofs`) | `bridge.rs` | The datagrams, and the session as a record with each method as an operator from session to session. |
| `BridgeSession` (`_proofs`) | | The bridge alone against a mod that may say anything. |
| `ModReceiver` (`_proofs`) | `receiver.lua`, `control.lua` | The mod's variables and one action per handler. |
| `ModSession` (`_proofs`) | | The mod alone against a bridge that may say anything. |
| `Mailbox` | | The abstract specification: what delivering snapshots promises. |
| `Delivery` (`_proofs`) | both | Bridge, mod and two UDP queues, with losses, saves, loads, pauses and restarts; implements `Mailbox`. |
| `Connection` | `viewer/connection.ts` | The reducer of the planner's connection: one operator per event. |
| `Viewer` (`_proofs`) | `viewer/{controller,viewer}.ts`, `server.rs` | The controller's socket and timers, the asynchronous builds, the bridge as a tab sees it, other planners. |
| `PlanStore`, `PlanTabs` (`_proofs`) | `store/*.ts`, the menus | Saving and merging plans as operators on one tab and the storage; the tabs, storage events, refused writes, reloads, crashes. |
| `SubPlans`, `Commands`, `Editor` (`_proofs`) | `blockStore.ts`, `subPlan*.ts` | The tree of rows; every command with its apply, undo and guards; the store with a history per block. |
| `Solver` | `blockGraph.ts`, `solver/index.ts` | The order of blocks; requests, supplies and their loops over the whole plan. |
| `Planner` | `solverStore.ts`, `gameDataStore.ts` | Editor, game data and debounced solver together. |

*Algorithms*, operators without state:

| Module | Code | What it is |
|---|---|---|
| `BlockSolve`, `Areas` | `solver/{index,build,solve,blockResult,solveCache,areas,areaRoutes}.ts` | The passes of one block, with a stated instead of a solved linear program, and what is kept between solves; areas and the routes between them. |
| `Effects`, `Temperatures` | `solver/{effects,temperature}.ts`, `data/fuel.ts` | What modules, beacons and fuel make of a row; which rows starve for a fluid too hot or too cold. |
| `Horizon` | `data/*.ts` | What research makes reachable; states, layout and search of the technology tree; default machines. |
| `PlanFile` | `data/{schema,subPlanTree,blockColors}.ts` | Reading old and imported plans. |
| `Snapshot` | `snapshot/project.ts` | What of a plan and its solve goes to the game. |
| `RecipeAreas`, `Matrix`, `Summary` | `components/**` | What tables, matrix and summary compute. |
| `RowDialogs` | `components/**` | The dialogs of a row, and the pickers of recipes and products. |
| `ConnectionRules` | `store/connections.ts`, `utils/blockGraphLayout.ts` | What the menus of connections offer, and where the graph of blocks is drawn. |
| `GameDump`, `GameExport` | `scripts/*.js` | The bundle made of a dump of the game, and its patches. |

`MC*` hold the constants and the small inputs for TLC.
### How state and actions correspond to the code

*The bridge.* `Bridge` in `bridge.rs` is a sans-IO state machine: the driver
calls a method, then sends what the method queued. The model keeps that shape.
`NewSession` is `Bridge::new`; `ReceiveSnapshot`, `Announce`, `HandleDatagram`
and `HandleTimeout` are the four inputs, each with everything it calls
(`EnterProbing` with the probe it sends at once, `SendWindow` with its first
pacing slot, the end of window with the change to `awaiting`). The field `out`
is the queue, which every action empties first (`Flushed`) because the driver
does. Time enters the code as a parameter. The code only compares it, so the
model keeps the outcomes of those comparisons: `probeAge` says whether the last
probe is younger than the interval, younger than the refill age, or older;
`link` whether the mod has been heard and lately enough; `nudgeDue` whether the
end of a window may be sent again. `ProbeAges`, `TurnsQuiet`, `NudgeComesDue`
are the passage of time. A ping and a pacing slot may be due at any time.
`chunksUnheard` and `probesUnheard` are history: what went out since the mod was
last heard.

*The mod.* `OnDatagram` dispatches to one action per datagram. A chunk that
completes a snapshot decodes and stores it within the same event, and so within
the same step, with the verdict (`Verdicts[id]`) of the decoder and of
`on_finish`. `TakeAnswer` is the flush, `Save` and `Load` are the game's:
`storage` is saved, everything else starts empty.

*Between them.* `Delivery` has two queues. Loopback UDP neither reorders nor
duplicates. A datagram is lost for want of room (`LoseToMod`, `LoseToBridge`),
and a load drops everything in the game's socket, because the game opens a new
one. `Poll` fixes the batch that one `recv_udp` takes out of the socket and
`ModHears` hands it over one by one; the bridge, another process, goes on in
between. A pause is the mod taking no step, for as long as you like.

*Data.* A snapshot is its id. Its bytes and chunk count are a function of the
id in the code (the id is a hash), so `Count` is a constant. A report's ranges
are the sequence of the indices they name.

*The planner connection.* `connection.ts` is a reducer, and so is `Connection`: an
operator per event, from a connection to the next one with the effect on the
socket and the frames to send. `Viewer` performs them as the controller does.
A frame is written, or reported as failed when the socket is not open; what is
written to a socket whose other end is gone goes nowhere. The asynchronous
build of a snapshot is a record in `builds`, told apart only by whether its
generation is still the latest. The bridge's end is what `server.rs` and the
session let a tab observe: the first message is a status, the outbox holds
`Outbox` messages, a tab that does not read is dropped, frames of a dropped
socket are still read, and a restart forgets everything. Other planners are
frames that reach the bridge at any time.

*Saved plans.* JavaScript runs a handler to its end, and no other tab touches the
storage meanwhile as far as the code can tell, so `PlanStore` has one operator
per handler: from a view (the storage and one tab) to a view. A write of a kind in
`refuses` throws, and the operator goes on as its `catch` does. `PlanTabs` lets
the player, game data that finishes loading and storage events run them. The
content of a plan is the plan it was made in and a count of edits. A tab that
was not told of a write yet (`told`) may act first.

*The editor.* A command of `blockStore.ts` is a pair of closures. In `Commands` it is
a record of the variables they captured; `Applied`, `Undone`, `CanApply` and
`CanUndo` say what the closures do to a block and when they are dropped, and
`AfterApply` which captured variables they write. The tree of sub-plans is
flat: a function from plan ids to contents, so that looking one up by id is
membership. `Editor` has one action per operation of the store. Undo reads the
history of the active block only, while an edit goes to the history of its own.

*The solver.* `SolveAll` is the whole solve as an operator: requests against the
dependencies, in rounds where they run in circles; supplies along them, in
rounds where those do; shares, credits and limits. In it the linear program of a
block is the simplest there is: the least whole rates that meet the goals.
`BlockSolve` and `Areas` are about one block and say which rates are best there,
with locks, pins, byproducts and areas; they search for them. `Planner` adds the
timer and the store of results: since a solve is a function of plan and data,
it is enough to keep which blocks have a result, which failed, and whether plan
or data changed since. A solve of a block that fails is that block's error; one that
throws as a whole (`Throws`) shows an error and leaves what earlier solves stored.
Game data is asked for in numbered requests, any number of them in flight, whose
answers come in any order (`LoadStarts`, `LoadEnds`).

### The promise

`Mailbox` is what a planner may rely on: there is one target; it is *delivered*
only if the reader has kept it, *refused* only if the reader can refuse it. An offer
of the snapshot that is under way or delivered starts nothing; one that was refused or
given up starts again only when the planner offers it (it may still turn out
delivered); and a delivery goes back to pending in one way only, `Reopen`, for a
snapshot the reader has let go of at some time. So that no other step can pass for an offer,
`offers` counts them. `Delivery` maps its state to it (`offers <- sends`,
`target <- bridge.id`, `outcome` from the phase, `kept <- stored`, and its history
`dropped`) and checks `MailboxKept`.

The guard of `Reopen` speaks of the past, and has to: one would rather promise that a
delivery is taken back only while the reader keeps something else. That is false.
A load brings another snapshot back, the hello that says so is slow, another load
brings the target back, and only then is the first hello heard: the bridge probes for
a snapshot that is there. The answer to the probe says so, and what the planner sees
is a delivery that was pending for a moment.

## The runs

| Run | Properties | What it shows |
|---|---|---|
| `bridge_session` | `TypeOK`, `WindowInv`, `SilentBudget`, `NoTimerResends`, `OverIsOver`, `StaleReportsIgnored` | The bridge alone, told anything a well-formed datagram can say, in any order. |
| `mod_session` | `AssemblySound`, `SlotTruth`, `ReportsSkipNothing`, `StoredChangesWhole`, `ProgressKept` | The mod alone, likewise. |
| `delivery_faults` | `ReportsMakeSense`, `MailboxKept` | Both together, with a loss, a save, a load and a planner that changes its mind, or sends again what was refused or given up. |
| `delivery_steady` | `BufferRoom`, `ReportsMakeSense`, `FailureNeedsFault`, `MailboxKept` | No losses, but a load, pauses, a restart of the bridge and a planner that goes back and forth: what the bridge last heard may be wrong when the planner comes back to it. |
| `delivery_one_fault` | `EndsRight` | With one loss or load the transfer ends as if nothing had happened. |
| `delivery_gives_up` | `EventuallySettled`, `NewestArrives` | With no tolerance for faults the bridge still stops waiting, and the mod still learns the newest id. |
| `planner_connection` | `SocketAgrees`, `GreetedFirst`, `RestoreFillsEmpty`, `NewestIsPlan`, `ShownIsTrue`, `PlanIsLatest`, `ReachesBridge` | A tab, other planners, and a bridge that restarts or speaks another version. |
| `saved_plans` | `GoneIsGone`, `OwnContent`, `ScreenIsStored`, `ListAgrees`, `NoEviction`, `LegacyKept`, `UnreadableKept` | Two tabs on one storage, with refused writes, reloads, uploads, values of older versions, and a crash. |
| `planner` | `ConnectionsSound`, `TreeSound`, `UndoRestores`, `ResultsCurrent`, `NewestRequestWins`, `FlowsSound` | Editing, undo, game data and the debounced solver together. |
| `delivery_refill` | `RefillMeansDrained` (violated) | See [below](#where-the-code-and-its-docs-disagree). |
| `delivery_budget` | `BufferBudget` (violated) | See [below](#where-the-code-and-its-docs-disagree). |
| `upload_silenced` | `OnlyOthersRemove` (violated) | See [below](#where-the-code-and-its-docs-disagree). |

The properties, in the order of the table:

- `TypeOK`: the session has its type; in particular the probe counter, an
  unsigned byte in the code, does not go below zero.
- `WindowInv`: whatever a report names, no window slices outside the snapshot,
  and a window that is out has a round (the `expect` of `send_slot`).
- `SilentBudget`: the spec's "No more can be sent while the mod is silent"
  (spec:646): at most one window of chunks and one burst of probes.
- `NoTimerResends`: no chunk goes out twice without an answer in between.
- `OverIsOver`: a refused or abandoned transfer stays over until a new snapshot
  or a hello that says the mod stores it.
- `StaleReportsIgnored`: a report that is not the one waited for (of another
  snapshot, another round, or a second time) does not move the transfer, though
  it refills the probe budget.
- `AssemblySound`: a reassembly is never of the stored snapshot, holds only its
  chunks and is never complete.
- `SlotTruth`: what waits in the answer slot is true of the mod when it is sent,
  not only when it was put there.
- `ReportsSkipNothing`: below the last index a report names, all that it leaves
  out is held. The bridge relies on this when it counts `upto`.
- `StoredChangesWhole`, `ProgressKept`: the stored snapshot changes only by a
  load or a complete, accepted reassembly; what has arrived of a snapshot is lost
  only to a probe of another one, to its own last chunk or to a load.
- `ReportsMakeSense`: the two reports the bridge defends against (a chunk it
  never sent, nothing left to send) do not come from this mod. It is checked in two
  runs, in both of which rounds wrap. When the planner sends A, B and A again, which
  starts the rounds of A at 0 (`delivery_steady`, with a restart of the bridge besides),
  a report made for a window of the first A can pass for the one awaited; it too names
  only chunks that were sent.
- `BufferRoom`: what the socket of a paused game has to hold is bounded: a window
  and a burst, and as much again for each answer the bridge has yet to hear.
- `FailureNeedsFault`: pauses, restarts and a planner that changes its mind
  never make a transfer fail.
- `EndsRight`, `EventuallySettled`, `NewestArrives`: the liveness properties.
- `SocketAgrees`: the controller's socket and timer fit the phase of the
  reducer; no event of a dropped socket and no timer that races with a switch
  leaves it waiting without a timer or with a socket behind its back.
- `GreetedFirst`: nothing is on its way to a bridge whose first status this
  socket has not heard, or that speaks another version.
- `RestoreFillsEmpty`: a restore finds the bridge empty, unless another planner
  or a frame of a socket dropped before got there first.
- `NewestIsPlan`: with nothing in flight the bridge's newest id is the plan of
  the page, whatever was lost, retried or restored; only an error that the
  player is shown, or another planner, makes it something else.
- `ShownIsTrue`: with nothing in flight the badge and the status are the
  bridge's: no status is lost to the bounded outbox unnoticed.
- `PlanIsLatest`: a late build of an older plan never replaces a newer one.
- `ReachesBridge`: a connection that stays on, to an address the browser
  accepts, ends with an open socket and everything said.
- `GoneIsGone`: a deleted plan never comes back through a tab that was not told.
- `OwnContent`: a plan's key, and the screen on that plan, only hold what was
  made in it.
- `ScreenIsStored`: the tab that wrote a plan last and is still on it shows what
  is stored.
- `ListAgrees`: a tab that was told of all lists what the shared index lists, in
  its order, and besides only plans whose index write was refused; a tab whose own
  last write of the index was refused is excused until one succeeds or it merges.
- `NoEviction`: a merge moves a tab off its plan only when the plan was deleted.
- `LegacyKept`, `UnreadableKept`: a value of an older version leaves its key only
  for a listed plan; what cannot be read is copied before it is overwritten, or
  the copy was refused.
- `ConnectionsSound`: connections read from other blocks that exist, once for
  each item, whatever was undone and redone after blocks came and went.
- `TreeSound`: every sub-plan is stored in one plan and shown by one handle
  there, every handle shows a sub-plan, and no row is there twice.
- `UndoRestores`: the undo of the last command of each block brings back what the
  command found, but for connections lost with a deleted source and, where a
  redo or one of two commands is involved, the order of rows.
- `ResultsCurrent`: with data loaded and no solve due, what is on screen is the
  result of the plan as it is, for the block that is active; only after a solve that
  threw may it be the error, or an old result of a block picked since.
- `NewestRequestWins`: the data in the store, or its error, is of the newest request,
  never of one that was overtaken or cleared away, and the store is loading only
  while the answer to the newest is still to come.
- `FlowsSound`: outside a loop that did not settle, no block gives away more of an
  item than it makes, and what a request asked for is delivered if the source
  can make it.

## Checked assumptions

Algorithms without state are checked as named assumptions over small inputs. TLC evaluates
them before it explores a run, and a false one stops the run. They compare the code's way
of computing with a definition of what is meant, or relate two computations that
must agree.

| Where | Evaluated by | What they say |
|---|---|---|
| `MCPlanner` | `planner` | The books of a block balance item by item; a lock gives way only to a connection; the second pass has a solution when the first has; offers do not replace own rows; a row called driven really has an excess; areas cost no imports, and routes between them carry what each lacks and has over. |
| `MCViews` | `planner_connection` | Rows are listed once and under their recipe; sums of views add up to the block's; a copy is offered only where it may go; what areas trade is seen the same from both sides; bars and keys claim no more than there is; groups of the snapshot nest, and a request counts for one product. |
| `MCViews`, menus | `planner_connection` | What a menu offers is kept once it is connected and solved; a request is taken up unless the menu said it would not be; what the menu says of a lost product happens. The dialogs of a row show what is stored and what the solve counts. What a search in a picker matches can be picked, and what is picked is the rate that was typed. In the drawn graph no two blocks and no two labels overlap, and every connection has a line. |
| `MCData` | `planner_connection` | Fuel, machines and effects of a row agree with the matrix of the solve; the solve cache gives what solving gives and keeps the last three; a warned row has no source that fits; the research horizon is the least closed set, grows with research and agrees with what the unlock of a recipe says, and its cache is right whatever was asked before. |
| `MCData`, tree | `planner_connection` | Each technology has a place of its own even in a cycle, in the first column right of its prerequisites, with lines that run to the right; a search lists each match once. |
| `MCData`, export | `planner_connection` | Invented recipes keep energy; fuels, machines and technologies of the dump arrive; a patch of an older bundle gives the full export; a dump that lacks what is patched changes nothing. |
| `MCPlanTabs` | `saved_plans` | Mending a tree of sub-plans loses none and settles; reading what was read changes nothing; goals and pulls of older versions become products once; drawn colours differ; an import opens on a block it has. |

Where an assumption makes an exception, the exception is a behaviour of the code
that is described [below](#where-the-code-and-its-docs-disagree).

## Bounds

| Constant | Code | Runs | Why that is enough |
|---|---|---|---|
| `Ids` | any | 2 (mod, viewer: 3) | one target and one to switch to, and back; one the reader takes, one it refuses, one too large to send |
| `Count` | up to 1,000 | 1 to 7 | one window, a window and a rest, and four windows with three reports between them, enough for rounds to wrap |
| `WINDOW_CHUNKS` | 24 | 2 | a window can mix a reported and a fresh chunk |
| `PACE_CHUNKS` | 4 | 1 | every window takes more than one slot, so everything can happen between two |
| `PROBE_BURST` | 3 | 1, 2 | 2 where a burst has a middle (`bridge_session`); with 1 each refill is a burst |
| `NO_PROGRESS_LIMIT` | 8 | 1 to 4 | 1 and 2 to make giving up common, 3 and 4 to ask when it is wrong |
| `ROUND_MODULUS` | 10,000 | 2, 3 | rounds wrap within a transfer; 2 in `delivery_faults` and `delivery_steady` |
| `MAX_REPORT_RANGES` | 12 | 1 | a report is cut off with three chunks |
| `MaxSends`, `MaxAnnounces` | none | 1 to 3, 0 or 1 | three sends are a switch and a switch back |
| `MaxLosses`, `MaxLoads`, `MaxFaults` (delivery) | none | 0 or 1; 2 in all | each fault at any point; both together in `delivery_faults` |
| `MaxSaves`, `MaxRestarts` | none | 0 or 1 | a save at any point, a restart at any point |
| `MaxPings` | none | 1 | pings are small, and a second one answers nothing more than the first |
| `MaxAnswers` | none | 1 | the mod flushes at most once per cycle; the bridge reads at once unless it is held up |
| `Clocks` | both | per run | which slow clocks run; the two others always do |
| `Outbox` | 64 | 2 | a status and an error fit, a third message does not |
| `MaxClicks`, `MaxEdits`, `MaxFaults`, `MaxOthers` (viewer) | none | 2, 1, 1, 1 | on and off, or on and sent, with a change of the plan, a fault and another planner anywhere in between |
| `Tabs`, `Bundled`, `Uploads` | any | 2 (alone: 1), 1, 1 | a tab that acts and one that was not told; a data set of each kind |
| `MaxPlans` | none | 5 | two stored plans, a migrated one, and one or two made by the tabs |
| `MaxEdits`, `MaxActions`, `MaxRefusals`, `MaxReloads` (tabs) | none | 1, 2, 1, 1 | a delete against an edit or a switch, with a refused write or a reload (or death) at any point |
| `LOOP_ROUND_LIMIT`, `REQUEST_ROUND_LIMIT`, `REQUEST_GROWTH_ROUNDS` | 8, 30, 3 | 4, 6, 3 | the plans have loops of both directions that settle below the limits, and a ring that settles at none |
| `Starts`, `menu` | any | 7 plans, 1 to 4 edits or requests each | a plan with nested areas, two connected blocks, an empty sub-plan, two loops of supply and request, each kind of edit with undo and redo of it, and four requests for data, three of them overtaken |

`MaxPings` and `MaxAnswers` make an action wait, the others end a supply.
Deadlock is checked in the runs of bridge, mod and delivery, which never stop.
The others end when the bounds of the player's actions are used up, or, as a page
does, when nobody does anything.

Two bounds carry meaning. `NO_PROGRESS_LIMIT` must exceed what happens without a
fault: with 2, a planner that switches snapshots and back, together with a
report that arrives late, fails a transfer with no fault at all; with 3 it does not
(`FailureNeedsFault`). And each fault may cost up to two bursts, so `EndsRight`
holds for one fault at limit 4 and fails for a loss and a load together at that
limit. The code has 8.

`BufferRoom` counts a window and a burst, and as much again for each answer the
bridge has yet to hear: those on their way, and the one in the mod's slot. In the
states of `delivery_steady` the highest count is 5 of the 9 it allows. Without that
run's load it is 4; and, also without a load, 4 with two answers in flight (of 12),
6 with windows of three (of 12) and 5 with bursts of two (of 12). The slot's answer may not be left out, though these small
instances would not tell: with windows of 12, slots of 4 and bursts of 3 TLC finds
more than the 30 that a bound without it would allow.

## Fairness

`delivery_one_fault`, `delivery_gives_up` (`FairSpec` of `Delivery`) and
`planner_connection` (`Spec` of `Viewer`) assume some; the others need none.

| Assumed | Because |
|---|---|
| WF `BridgeHears` | the session thread reads its socket in a loop |
| WF `BridgeTimeout(TRUE, FALSE)`, `(FALSE, TRUE)` | the driver wakes at the deadline the session names, for a ping and for a pacing slot |
| SF `ProbeTimePasses` | the clock goes on; in the model it stands still while a datagram waits in the bridge's socket, which happens again and again but never for good |
| WF `Poll ∨ ModHears` | the game does not stay paused for ever |
| SF `ModFlushes` | every cycle of ticks ends with a flush; a poll under way holds it up, never for good |
| WF `SocketOpens ∨ SocketCloses ∨ HearClosed ∨ RetryFires` | a browser ends an opening or closing socket one way or the other and fires timers |
| WF `HearMessage` | the browser hands over messages |
| WF `SolveDone`, `BuildDone` | a solve and each hash that was started come to an end |
| WF `BridgeOpens`, `BridgeReads`, `BridgeReadsLate` | the bridge's connection threads shake hands and read in a loop |

The two slow clocks (`LinkTurnsQuiet`, `NudgeTimePasses`), the player who clicks,
edits, saves and loads, the other planners and the network are not assumed to do
anything. A socket may fail, a bounded number of times.

## The proofs

TLAPS checks these theorems for every value of the constants: every set of
snapshots, chunk count, window, pace, burst, tolerance, round modulus, verdict
and input; every set of items, recipes and rates, and every loaded plan; every set
of plans a tab may show, whatever of them the bridge refuses, and every outbox;
every set of tabs and data sets, any number of plans, edits, refused writes and
crashes; any number of losses, loads, saves, pauses and restarts.

| Theorem | Property |
|---|---|
| `SessionTypeCorrect` | `SessionSpec => []TypeOK` |
| `SessionWindowSound` | `SessionSpec => []WindowInv` |
| `SessionSilentBudget` | `SessionSpec => []SilentBudget` |
| `SessionNoTimerResends` | `SessionSpec => []NoTimerResends` |
| `SessionOverIsOver` | `SessionSpec => OverIsOver` |
| `SessionStaleReportsIgnored` | `SessionSpec => StaleReportsIgnored` |
| `ModAssemblySound` | `ModSpec => []AssemblySound` |
| `ModSlotTruth` | `ModSpec => []SlotTruth` |
| `ModStoredChangesWhole` | `ModSpec => StoredChangesWhole` |
| `ModProgressKept` | `ModSpec => ProgressKept` |
| `ModReportsSkipNothing` | `ModSpec => []ReportsSkipNothing` |
| `DeliveryImplementsMailbox` | `Spec => MailboxKept` of `Delivery`: the protocol implements `Mailbox` |
| `DeliveryBufferRoom` | `Spec => []BufferRoom` of `Delivery` |
| `ViewerSocketAgrees` | `Spec => []SocketAgrees` of `Viewer` |
| `ViewerGreetedFirst` | `Spec => []GreetedFirst` of `Viewer` |
| `ViewerRestoreFillsEmpty` | `Spec => []RestoreFillsEmpty` of `Viewer` |
| `ViewerPlanIsLatest` | `Spec => []PlanIsLatest` of `Viewer` |
| `ViewerShownIsTrue` | `Spec => []ShownIsTrue` of `Viewer` |
| `ViewerNewestIsPlan` | `Spec => []NewestIsPlan` of `Viewer` |
| `TabsOwnContent` | `Spec => []OwnContent` of `PlanTabs` |
| `TabsUnreadableKept` | `Spec => UnreadableKept` of `PlanTabs` |
| `TabsLegacyKept` | `Spec => LegacyKept` of `PlanTabs` |
| `TabsGoneIsGone` | `Spec => []GoneIsGone` of `PlanTabs` |
| `TabsNoEviction` | `Spec => NoEviction` of `PlanTabs` |
| `TabsScreenIsStored` | `Spec => []ScreenIsStored` of `PlanTabs` |
| `EditorConnectionsSound` | `Spec => []ConnectionsSound` of `Editor` |
| `PlannerConnectionsSound` | `PlannerSpec => []ConnectionsSound` of `Planner` |
| `PlannerResultsCurrent` | `PlannerSpec => []ResultsCurrent` of `Planner` |
| `PlannerNewestRequestWins` | `PlannerSpec => []NewestRequestWins` of `Planner` |

Each rests on an invariant that is a theorem, too: `SessionGood`, `ModInvariant`,
`ModReportMade`, `DeliveryInvariant`, `DeliveryRoom`, `ViewerInvariant`,
`ViewerPlanFollows`, `ViewerLastStatus`, `ViewerPlanSaid`, `TabsInvariant`,
`TabsHomes`, `TabsScreens`, `EditorInvariant`, `PlannerInvariant`.

*Bridge* (`Bridge_proofs`, `BridgeSession_proofs`). None of the three invariants is inductive
alone. A silent mod gets at most a window of chunks, but nothing in
`SilentBudget` says why: a pacing slot sends more chunks and must not exceed the
window. The inductive invariant `Good(s)` therefore counts what is out together
with what may still go out: chunks unheard plus the rest of the window (from
`cursor` on) are at most `WINDOW_CHUNKS`, and probes unheard plus `probesLeft`
at most `PROBE_BURST`. The first sum needs `cursor` inside the window, and a new
window may only be built once the mod was heard, when the first count is zero.
`WindowSound` needs the window's indices below `Count[id]`, which rests on
`upto` being at most the count and on the filter of `on_missing`.

The proof has one lemma per operator of `Bridge` that says it keeps `Good`
(`Bridge_proofs`), then one per input, and the induction over `SessionNext` cites
those. The inputs are any well-formed datagrams in any order, so nothing is assumed
of the mod or of the network.

That a timer resends nothing needs one more invariant, `Once(s)`: the chunks sent since
the mod was last heard differ, so do the indices of the window, and none of those
still to be paced out is among those sent. A new window is a subsequence of the reported
indices in ascending order and then fresh ones from `upto` on; that it repeats none rests on
both ends' agreement that ranges ascend (`parse_ranges` refuses others, so `Wire`
has them as `Ascending`). `OverIsOver` and `StaleReportsIgnored` are then case
distinctions over the inputs (`OnMissingCases`, `WindowStarted`, `FruitlessPhase`).

*Mod* (`ModReceiver_proofs`, `ModSession_proofs`). `MInv` is the types of `stored`, `saved` and
`assembling` with `AssemblySound` and `SlotTruth`, which need each other: a
ready in the slot says that its snapshot is being assembled, which no later step
may make untrue before the flush. The two action properties follow from `MInv`
and the definition of the last chunk. `ReportsSkipNothing` is about a report that
waits while chunks go on to arrive: `ReportMade` says that the report in the slot is the
report of what was held when it was made, a subset of what is held now. The lemmas about reports
(`ModReceiver_proofs`) count the missing indices by their rank, since a recursive
scan would need induction over data.

*Delivery* (`Delivery_proofs`). The refinement is a step simulation: each step of
`Delivery` is a step of `Mailbox` or leaves its variables alone. Most cases are
`SessionGood`'s lemmas again, since the bridge's phase changes in few places. Hard
are the two in which the bridge tells the planner something of the mod: `Confirm` needs that
an ack or hello it hears was true at some time, `Reopen` that a hello that names
another snapshot after a delivery is not an *older* one. A message of the planner is
always an `Offer`, and no other step is one: it counts `offers`, and of the snapshot that is
under way it changes nothing (`SameSnapshotSays`). `DInv` says so of
everything on its way. `SlotHonest`: the slot's answer is true now. `Ordered`: each
answer in the queue names a snapshot the mod has kept at some time, and a hello that
contradicts an answer before it, or what the bridge was told already (`Claims`), comes from a
mod that has let that other snapshot go. A queue that reorders would break it, and
loopback UDP does not. The theorem has the hypothesis `Patient`: a burst of more
than one probe, or a tolerance of more than one failure (the code has 3 and 8). With
one of each, a hello may end in the same step the transfer it has just started again, from
delivered to abandoned, which is two steps of the mailbox.

That the socket of a paused game does not fill without end is an account of what the
bridge owes (`RoomInv`). What it can send unanswered is its `Burden`: what is left of its
window and its budget of probes, at most a window and a burst (`Good` again). What
it sends moves from there to the socket; only an answer heard may raise it again, to no
more than that (`HandleDatagramBurden`), and each answer pays for it in
advance: `Unheard` counts those on their way, the one in the slot, and the one that the
poll under way may put there. A poll, which adds that one, has emptied the socket. A
timer, a message of the planner or a restart only lowers the account. The bound this
gives is larger by a window and a burst than the one first written down, which held
in the small runs: the attempt to prove it failed at the poll, and TLC with a larger
window then found the counterexample.

*Editor* (`Editor_proofs`). A command that is undone or redone may find a plan it
was not made for: its source deleted, its connection made again by hand, its
block copied. One would expect the inductive invariant to say something of the
two histories. It does not, and that is the finding: `EInv` holds whatever the
stacks contain, because `CanApply` and `CanUndo` look at the plan as it is before a
command runs (lemmas `AppliedSound` and `UndoneSound`). What it needs besides
the soundness of each block's connections is that the next id is above all ids in use,
so that a new or copied block is nobody's source, and that the blocks are a
sequence with an active one among them. There is a lemma for each group of
actions; deleting a block (`RemoveKeeps`) is the one that has to drop what reads
from it, in every other block.

The planner adds to it what is on screen (`ShownInv`, in the same module): with the stores
wired, data loaded and no solve due, either nothing was ever solved, and then no tab can be
switched to as solved, or every block was solved after the last change, or the last solve
threw and its error, or an old result, stands. A change of the plan
makes a solve due, unless only another block of the same plan was made active, whose result
is stored and as right as what was shown before (`EditShows`); a solve that runs leaves
everything solved, or throws (`SolveShows`); a change of the data makes a solve due, and an
answer that was overtaken changes nothing (`DataShows`).
That the data is of the newest request needs only that no request in flight has a number
above it (`DataInv`).
What a solve computes is left as it is: the proof
does not look into it.

*Planner connection* (`Viewer_proofs`). `SocketAgrees` is inductive once it is
known which end of the socket can exist in which state (`LinkSound`). The other
two are not: that a bridge is empty when a restore arrives is concluded from a
status which was true when the bridge queued it, and what is queued may be old.
`VInv` therefore speaks about the inbox. `VersionKnown`: what waits in the inbox of a
live socket is of the version the bridge speaks, and so is what was concluded
from it. `Undisturbed`: as long as nobody else talked to the bridge and the tab
has not heard its first status, that status is still what the bridge would say;
the tab itself cannot make it old, because it says nothing before (`GreetedFirst`).
`RestoreLeads`: a restore is the first frame out, so no frame of the tab's own
can fill the bridge ahead of it. The proof has a lemma per event of the reducer
(what it does to the phase, the first status and the frames), one for what a tab
hears and one for what a bridge queues, then one per action.

The other three properties say what holds when all is quiet, and each needs an
invariant that says what is true meanwhile. `PlanFollows`: unless a build is still to come, failed or
outdated by an edit, the plan is that of the latest solve; of the builds under way
at most one counts (`BuildsSound`). `LastStatusTrue`: the last status in the inbox
is the bridge's as it is now, and when there is none, the one heard last is; the
bounded outbox costs a tab its connection, never a status. `PlanSaid`: to a bridge that nobody else
talks to the last thing the tab said is its plan; it is on its way, or taken, or
the error that refused it is on its way or shown.

*Saved plans* (`PlanTabs_proofs`). The handlers of `persistence.ts` call each other
deeply (a switch of data sets saves, migrates, reads, merges and shows), and every
write in them may be refused. `TabsInv` therefore is a predicate of a view, a
tab with the storage as it sees it (`Settled`): each key holds what was made in its
plan (`OwnDocs`), no id is used that was not drawn yet, an index that can be read names an
active plan it lists (`Drew`), and a tab with a data set has a list, an active plan
in it, that plan on screen, and a copy of whatever unreadable value lies under it (`Ready`,
`OnScreen`, `ActiveKept`; `Seen` counts a copy that was refused). Each handler has a
lemma that takes a settled view to a settled one, and one, `Confined`, which says
what it may touch: its own data set, and nothing unreadable before its copy.
`Safe` is what is left of `Confined` over a whole step. A step changes one tab and, of
the others, only what they were told, so a settled view of one tab makes settled
views of all. Three properties follow: `OwnContent` from `OwnDocs` and
`OnScreen`, `UnreadableKept` and `LegacyKept` from `Safe`.

One would expect `OwnContent` to need a list that agrees with storage, or a
merge that is right. It does not: a tab shows a plan by reading its key, and saves
under the plan it shows, so it holds for a tab however wrong its list is.

That what is gone stays gone does need it. `HomesInv` gives each plan a home, the
data set it was drawn for (`Homes`; a plan drawn next has none yet, so the proof
chooses it in the step that draws, `NextHome`), and relates a tab's list to what it
merged last and to storage (`Agrees`): it lists what it merged, what it could not
list, and otherwise only plans that were deleted since. So a list that was just
merged leaves out nothing but deleted plans and brings none back (`Current`), and
only such a list is ever written: every operator that writes one syncs first. What
the other tabs rely on is `Grows`: a plan leaves a shared list only by being
deleted. `GoneIsGone` is a conjunct of the invariant, `NoEviction` follows from
`Agrees` and from what a merge does (`Merging`). Neither property is inductive without
the home: a data set that is loaded again must not find a plan deleted in another.

`ScreenIsStored` looks like a matter of one tab and is not: another tab that deletes,
drops or adopts a plan changes keys, too. `Signed` says that whoever changes a
key that held a plan leaves its name on it, or none; so a tab that
still counts as the writer finds there what it wrote. `ScreensInv` drops the
condition that the data is loaded, because a tab that loads its data set again keeps
its screen; every handler either keeps it (`Keeps`) or ends in a save (`Saves`).

*Assumptions.* `ConnectionAssumption` and `ViewerAssumption` (the no-id value is
no id, what is too large or refused is a plan, an outbox holds a message);
`NoIdAssumption` (the no-id value is no id), `CountAssumption`
(each snapshot has a chunk), `BridgeAssumption` (limits are positive, rounds
have at least two values), `VerdictsAssumption`, `RangesAssumption`, and that
inputs are well-formed (`InputsAssumption`, `ArrivalsAssumption`; the latter
includes that a chunk's index is below the count its id implies, which the
parser enforces through `count`). `StartsAssumption`: a loaded plan is one the
editor saved, or one the schema mended, with its ids below the next one drawn
(the code draws random ones). `PlanStoreAssumption`: no upload is a
bundled data set, and the value for no data set is neither. `PlanTabsAssumption`: there is a tab,
no tab is 0 (which stands for no writer), and there may be two plans or more. `BoundsAssumption`: the bounds of losses, loads and so on are numbers,
of any size.

*Only model-checked.* Of `Delivery`, `ReportsMakeSense` and `FailureNeedsFault`: both
need to know which reports may be late, the first whatever the rounds have
wrapped to meanwhile. Of `PlanTabs`, `ListAgrees`: the order of a
merged list is what `MergeLists` computes by recursion over it (which plans it
has is proved, `MergeType`). Of
`Editor` and `Planner`, `TreeSound`, `UndoRestores` and
`FlowsSound`: the tree, the rounds and the algorithms are recursive, which puts
what they compute for every input out of reach of the prover. Liveness (`EndsRight`,
`EventuallySettled`, `NewestArrives`, `ReachesBridge`) is beyond TLAPS and stays
with TLC.

## Where the code and its docs disagree

Three have a run.

**A refill does not prove the mod drained.** spec:533 gives the reason for the rule
that refills the probe budget: "Each of these proves the mod has drained what
came before." For a hello heard more than a second after the last probe that is
not so (`delivery_refill`). A ping fills the answer slot at a poll; the probe
arrives after that poll; the game stalls between the poll and the flush; the
hello is then sent with the probe still in the socket. The refill adds a burst,
not more: `BufferRoom` still holds.

**The worst case in the buffer.** spec:646 says it is a whole window, its end and
a burst. `delivery_budget` finds two whole windows. Two probes of A are out when
the first ready starts a window; the planner sends B and then A again, which puts
the transfer back to `probing` with the old window still in the socket; the
answer to the second probe starts another window. With the code's constants that is 48
chunks, about 390 KB where the socket holds 256 KB. It is not the worst either: with
three probes answered in three polls, the last of which finds only the first slot of a
window, two late readies start two more on top of the rest of that one, 68 chunks, about
550 KB. It takes a bridge that hears an answer later than a cycle of ticks, and a
pause. What overflows is lost and reported missing, so the cost is a retry.
`BufferRoom` states what does hold, and is proved.

**An upload that saves nothing any more.** A tab takes a missing index of an upload
for the work of another tab (`persistence.ts:34`) and saves nothing of it from then
on. `upload_silenced` has one tab only: picking a bundled data set removes the
plans of the uploads before the data is loaded (`WorkspaceMenu.tsx:145-163`); if the
load fails, the upload is still the active data set, its index is gone, and the
tab concludes the same.

Others were met while modelling and have no run. Those of the first list are
exempted by a property or assumption, with a comment there.

- A plan that a tab could not list in storage (the index write was refused) and
  another tab lists and deletes comes back with the next save of the first
  (`GoneIsGone` exempts it).
- Undoing the removal of a row appends it at the end, and moving the first row up
  pushes a command that does nothing and whose undo moves the row, though
  `blockStore.ts:9` speaks of a full apply and undo. A redone move uses captured
  positions that may be stale (`UndoRestores` speaks of order only where it holds).
  The removal of a connection cannot be undone once its item is a product.
- Two products of one item: `solveBlock` keeps the rate of the last one only
  (`initiatives/backlog.md:15`; `spec/solver.md:204` says rates add up), and both
  slots show all exports of the item (`FlowsSound` exempts it).
- Once data is cleared, a switch of tabs shows an old result as solved. So it does
  after a solve that threw as a whole (`solverStore.ts:133`): the error is shown, but the
  results of the solve before stay stored, the timer is off, and picking another block
  shows its old result as solved, though a comment says "the stored results are already
  right" (`solverStore.ts:142`). `ResultsCurrent` exempts both.
- `reparentSubPlans` with two handles of one sub-plan changes something each time it
  runs (`MendingSettles`).
- A comment in `solver/index.ts` (about line 245) says that a byproduct consumer's
  ingredient must come from the plan or be raw. When it is on offer its lock is let
  go in the first pass, and if the offer does not suffice the program may import it
  (`LocksHold`, `ConsumersGetNone`).
- A speed bonus has no floor: at −100 % the number of machines is infinite, below
  it negative (`MachinesSuffice` stays above).
- Requests of a cycle that does not settle are ignored, and a block without a recipe
  takes up a request for the item all the same, so that a later one is asked for
  nothing (`RequestsAreTakenUp`).
- A patch of the fuels keeps a machine a burner that burns nothing any more, where
  the full export would not (`ChangesArePatched` states it; `fuel.js:2` says "two
  paths cannot disagree").

The second list is about what the models leave open or abstract from.

- A copy of an unreadable plan that storage refuses does not stop the autosave from
  overwriting the original (`spec/ui.md:653`); `UnreadableKept` says "copied, or the
  copy was refused".
- spec:220-223 says a refused snapshot can never be sent again by itself; an
  announce between the snapshot and its error makes the error answer the announce
  (`connection.ts:270`).
- The dialogs to rename and delete act on whichever plan is active when confirmed.
- The flag that another tab removed an upload is not reset when another tab uploads
  it again.
- `BlockLoop` is said to be in breadth-first order; `loopComponent` uses the reverse
  of a depth-first postorder.
- Undo and redo have no control in the interface (`spec/tech-stack.md:23`).
- `BeaconModal` shows effects with the entity's current slots and efficiency, the
  solve uses those stored in the row (`ShownIsSolved` has one data set only).
- `power.js:104` takes a fuel without a category for no fuel, `fuel.js:38` for a
  chemical one; boilers leave out a hidden filter fluid, generators take it.
- A recipe without an item group has no tab in the picker of recipes, and cannot be
  picked while one with a group matches, too (`EveryMatchIsPickable` exempts it).
- `isResearchable` keeps its answers while it walks, which makes it depend on the
  order if prerequisites run in a circle; the model has none.
- The tie-break for the most square rectangle in `findRectangle` never decides.
- spec:523 says a report that names a chunk never sent "is dropped", while the code
  counts it as fruitless (`bridge.rs:413-421`, with a comment that says so).
  `ReportsMakeSense` shows this mod never sends one.

## What is not modelled

- *Bridge, mod, wire*: digits, paddings and length limits of datagrams (one that
  breaks them is dropped and has no step); the numbers in the status, the ping
  schedule and its back-off (a ping may be due at any time), the tick arithmetic
  of the mod's disconnect threshold, `recompute_unknown` after a changed mod set.
- *Bridge server*: its threads, sockets and connection slots, and its shutdown. What
  a planner can tell of them is in `Viewer`. Three hazards have no property for that.
- *Planner*: the texts of badges and messages; names, colours and times of blocks and
  plans, which are a label; the order of a block's connections.
- *Solver*: the simplex library, its tolerances and its answer to a program with no
  solution; rates are whole numbers. A floating-point rest that is noise is not
  there, nor are the thresholds that hide it.
- *Game data*: the schema of the data file; in the export, names and locales,
  icons, groups, modules, `--patch-names`, the contract scripts.
- *Snapshot*: its encoding, and the check of its shape on the mod's side, which
  shared fixtures tie together.
- *User interfaces*: rendering and dragging; the mod's windows with its build marks.

## The plan

Done: the transfer protocol end to end, the planner's connection to the bridge,
saved plans, the editor with its undo, the solver and its scheduling, the
algorithms around them. What is left, in order:

1. `Server`: the threads of `server.rs` around an abstract session. Slots come back on
   every path, a slow planner is dropped, shutdown ends (liveness). Two or three
   connections, outboxes of one or two.
2. Theorems: `ReportsMakeSense` of `Delivery`, from `Once` and the rounds of what is
   in flight.
3. `BuildProgress`: the marks of the mod across a replaced snapshot.
