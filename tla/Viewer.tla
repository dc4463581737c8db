------------------------------- MODULE Viewer -------------------------------
(* One planner tab and the bridge it connects to: the reducer of Connection *)
(* driven by the controller's socket and timer (viewer/controller.ts), the  *)
(* asynchronous builds of the plan's snapshot (viewer/viewer.ts), and the   *)
(* part of the bridge's session the tab can observe.  Other planners are    *)
(* frames that reach the bridge at any time.                                *)
EXTENDS Connection, FiniteSets

CONSTANTS
    Refused,        \* snapshots the bridge answers with an error
    Outbox,         \* messages the bridge queues for a planner
    MaxClicks,      \* bounds on what the player, the solver, the network
    MaxEdits,       \* and the other planners do
    MaxFaults,
    MaxOthers

ASSUME ViewerAssumption ==
    /\ Refused \subseteq Ids
    /\ Outbox \in Nat \ {0}
    /\ MaxClicks \in Nat /\ MaxEdits \in Nat
    /\ MaxFaults \in Nat /\ MaxOthers \in Nat

VARIABLES
    conn,       \* the state of the reducer
    sock,       \* the controller's socket, with the browser's readyState
    retry,      \* the retry timer is set
    blocked,    \* the address is malformed, or one the browser refuses
    peer,       \* the bridge's end of that socket
    wire,       \* frames on their way to the bridge
    inbox,      \* messages on their way to the tab
    left,       \* frames of sockets the tab has dropped, still to be read
    bridge,     \* newest, the snapshot held, and the protocol it speaks
    solver,     \* the id of the last solve's plan, and whether one is pending
    builds,     \* snapshots being built, the current one and stale ones
    clicks, edits, faults, others,
    foreign     \* history: the bridge was told or lost something by others

tab == <<conn, sock, retry, blocked, inbox>>
net == <<peer, wire, left, bridge, foreign>>
work == <<solver, builds>>
bounds == <<clicks, edits, faults, others>>
vars == <<tab, net, work, bounds>>

Build == [id : Ids, current : BOOLEAN]

EmptyBridge(speaks) == [newest |-> NoId, held |-> NoId, speaks |-> speaks]

(* A status: another version's is only known by its version. *)
StatusOf(b) ==
    IF b.speaks = "ours"
        THEN [kind |-> "status", newest |-> b.newest, held |-> b.held]
        ELSE [kind |-> "foreign", newest |-> NoId, held |-> NoId]

ErrorMessage == [kind |-> "error", newest |-> NoId, held |-> NoId]
Unreadable == [kind |-> "unreadable", newest |-> NoId, held |-> NoId]

Init ==
    /\ \E auto \in BOOLEAN : conn = InitialConnection(auto)
    /\ sock = "none" /\ retry = FALSE /\ peer = "none"
    /\ blocked \in BOOLEAN
    /\ wire = <<>> /\ inbox = <<>> /\ left = <<>>
    /\ \E speaks \in {"ours", "other"} : bridge = EmptyBridge(speaks)
    /\ \E id \in MaybeId : solver = [latest |-> id, pending |-> FALSE]
    /\ builds = {}
    /\ clicks = 0 /\ edits = 0 /\ faults = 0 /\ others = 0
    /\ foreign = FALSE

-----------------------------------------------------------------------------
(* The builds.  A generation number is compared only for equality with the  *)
(* latest, so a build is either current or stale.                           *)
Outdated(bs) == {[b EXCEPT !.current = FALSE] : b \in bs}

(* rebuild with the connection on: nothing is built while a solve is        *)
(* pending or before the first result.                                      *)
Rebuild(s) ==
    builds' = Outdated(builds) \cup
              IF s.pending \/ s.latest = NoId THEN {}
              ELSE {[id |-> s.latest, current |-> TRUE]}

-----------------------------------------------------------------------------
(* The controller. *)

(* perform of the frames a transition sends: they go out, or each is        *)
(* reported as failed.  What is written to a socket whose other end is gone *)
(* goes nowhere.                                                            *)
Transmit(t) ==
    IF sock = "open" \/ t.frames = <<>>
        THEN /\ conn' = t.conn
             /\ wire' = IF peer = "live" THEN wire \o t.frames ELSE wire
        ELSE /\ conn' = SendFailed(t.conn, t.frames)
             /\ wire' = wire

(* dropSocket: the handlers are taken off first, so nothing more is heard;  *)
(* what was written before still reaches the bridge.                        *)
DropSocket ==
    /\ inbox' = <<>>
    /\ wire' = <<>>
    /\ left' = IF peer = "live" THEN left \o wire ELSE left

SchedulesRetry(t) == t.effect = "scheduleRetry"

(* connect: the browser may refuse to create the socket. *)
Connect(t) ==
    /\ t.effect = "connect"
    /\ conn' = IF blocked' THEN ConnectThrew(t.conn).conn ELSE t.conn
    /\ sock' = IF blocked' THEN "none" ELSE "opening"
    /\ retry' = (blocked' /\ SchedulesRetry(ConnectThrew(t.conn)))

Clicked == clicks < MaxClicks /\ clicks' = clicks + 1

TurnOn ==
    /\ Clicked
    /\ conn.phase = "off"
    /\ UNCHANGED blocked
    /\ Connect(Enable(conn))
    /\ Rebuild(solver)
    /\ UNCHANGED <<inbox, net, solver, edits, faults, others>>

(* Switching off without cancelling the retry timer. *)
TurnOffKeepingTimer ==
    /\ Clicked
    /\ conn.phase # "off"
    /\ conn' = Disable(conn).conn
    /\ sock' = "none" /\ peer' = "none"
    /\ DropSocket
    /\ builds' = Outdated(builds)
    /\ UNCHANGED <<retry, blocked, bridge, foreign, solver,
                   edits, faults, others>>

TurnOff ==
    /\ Clicked
    /\ conn.phase # "off"
    /\ conn' = Disable(conn).conn
    /\ sock' = "none" /\ retry' = FALSE /\ peer' = "none"
    /\ DropSocket
    /\ builds' = Outdated(builds)
    /\ UNCHANGED <<blocked, bridge, foreign, solver, edits, faults, others>>

(* Saving another bridge address while connected: off and on again. *)
ChangeAddress ==
    /\ Clicked
    /\ conn.phase # "off"
    /\ blocked' \in BOOLEAN
    /\ Connect(Enable(Disable(conn).conn))
    /\ peer' = "none"
    /\ DropSocket
    /\ Rebuild(solver)
    /\ UNCHANGED <<bridge, foreign, solver, edits, faults, others>>

ChooseAutoSend ==
    /\ Clicked
    /\ conn' = SetAutoSend(conn, ~conn.auto).conn
    /\ UNCHANGED <<sock, retry, blocked, inbox, net, work,
                   edits, faults, others>>

(* The Send button, enabled when there is a plan the bridge may be sent. *)
Send ==
    /\ Clicked
    /\ Sendable(conn)
    /\ Transmit(PressSend(conn))
    /\ UNCHANGED <<sock, retry, blocked, inbox, peer, left, bridge, foreign, work,
                   edits, faults, others>>

SocketOpens ==
    /\ sock = "opening"
    /\ sock' = "open"
    /\ peer' = "accepted"
    /\ conn' = Opened(conn).conn
    /\ UNCHANGED <<retry, blocked, inbox, wire, left, bridge, foreign, work,
                   bounds>>

SocketFails ==
    /\ faults < MaxFaults
    /\ sock = "opening"
    /\ sock' = "none"
    /\ conn' = Closed(conn).conn
    /\ retry' = SchedulesRetry(Closed(conn))
    /\ faults' = faults + 1
    /\ UNCHANGED <<blocked, inbox, net, work, clicks, edits, others>>

(* The browser learns that the other end is gone: what has not been handed  *)
(* to the page is not any more, and nothing can be written.                 *)
SocketCloses ==
    /\ sock = "open" /\ peer = "cut"
    /\ sock' = "closing"
    /\ inbox' = <<>>
    /\ UNCHANGED <<conn, retry, blocked, net, work, bounds>>

HearClosed ==
    /\ sock = "closing"
    /\ sock' = "none" /\ peer' = "none"
    /\ conn' = Closed(conn).conn
    /\ retry' = SchedulesRetry(Closed(conn))
    /\ UNCHANGED <<blocked, inbox, wire, left, bridge, foreign, work, bounds>>

RetryFires ==
    /\ retry
    /\ UNCHANGED blocked
    /\ Connect(Retry(conn))
    /\ UNCHANGED <<inbox, net, work, bounds>>

HearMessage ==
    /\ sock = "open" /\ inbox # <<>>
    /\ Transmit(Text(conn, Head(inbox)))
    /\ inbox' = Tail(inbox)
    /\ UNCHANGED <<sock, retry, blocked, peer, left, bridge, foreign, work,
                   bounds>>

-----------------------------------------------------------------------------
(* The solver and the builds. *)

(* An edit makes a solve pending, which outdates the build under way. *)
Edit ==
    /\ edits < MaxEdits /\ ~solver.pending
    /\ edits' = edits + 1
    /\ solver' = [solver EXCEPT !.pending = TRUE]
    /\ builds' = Outdated(builds)
    /\ UNCHANGED <<tab, net, clicks, faults, others>>

SolveDone(id) ==
    /\ solver.pending
    /\ solver' = [latest |-> id, pending |-> FALSE]
    /\ IF conn.phase = "off" THEN builds' = Outdated(builds)
                             ELSE Rebuild(solver')
    /\ UNCHANGED <<tab, net, bounds>>

(* A build handed over without asking whether it is still the latest. *)
BuildDoneAnyway(b) ==
    /\ b \in builds
    /\ builds' = builds \ {b}
    /\ IF conn.plan = b.id THEN Transmit(BuildCleared(conn))
                           ELSE Transmit(Solved(conn, b.id))
    /\ UNCHANGED <<sock, retry, blocked, inbox, peer, left, bridge, foreign,
                   solver, bounds>>

(* The hash of a build arrives; a stale one is dropped, and so is the plan  *)
(* that is already known.                                                   *)
BuildDone(b) ==
    /\ b \in builds
    /\ builds' = builds \ {b}
    /\ CASE ~b.current -> UNCHANGED <<conn, wire>>
         [] b.current /\ conn.plan = b.id ->
                Transmit(BuildCleared(conn))
         [] OTHER -> Transmit(Solved(conn, b.id))
    /\ UNCHANGED <<sock, retry, blocked, inbox, peer, left, bridge, foreign, solver,
                   bounds>>

BuildFails(b) ==
    /\ faults < MaxFaults /\ faults' = faults + 1
    /\ b \in builds
    /\ builds' = builds \ {b}
    /\ conn' = IF b.current THEN BuildFailed(conn).conn ELSE conn
    /\ UNCHANGED <<sock, retry, blocked, inbox, net, solver, clicks, edits, others>>

-----------------------------------------------------------------------------
(* The bridge's session, as far as its planners can tell. *)

(* A full outbox loses the message instead of the planner. *)
QueueDropping(ms) ==
    /\ inbox' = IF Len(inbox) + Len(ms) <= Outbox THEN inbox \o ms ELSE inbox
    /\ peer' = peer

(* queue: a planner whose outbox is full is dropped once it has been sent   *)
(* what is queued.                                                          *)
Queue(ms) ==
    IF Len(inbox) + Len(ms) <= Outbox
        THEN inbox' = inbox \o ms /\ peer' = peer
        ELSE inbox' = inbox /\ peer' = "cut"

(* The frames still to be handled.  Of a planner that is dropped, only      *)
(* those its thread had read before are.                                    *)
Unread(own, late) ==
    IF peer = "live" /\ peer' = "cut"
        THEN \E n \in 0..Len(own) : /\ left' = late \o SubSeq(own, 1, n)
                                    /\ wire' = <<>>
        ELSE wire' = own /\ left' = late

(* publish: a status that differs goes to every planner. *)
Publish ==
    IF peer = "live" /\ StatusOf(bridge') # StatusOf(bridge)
        THEN Queue(<<StatusOf(bridge')>>)
        ELSE UNCHANGED <<inbox, peer>>

(* receive_snapshot and announce. *)
Takes(f) ==
    bridge' = [bridge EXCEPT !.newest = f.id,
                             !.held = IF f.type = "snapshot" THEN f.id ELSE @]

Refuses(f) == f.type = "snapshot" /\ f.id \in Refused

(* on_opened: the first message of a connection is the status. *)
BridgeOpens ==
    /\ peer = "accepted"
    /\ peer' = "live"
    /\ inbox' = <<StatusOf(bridge)>>
    /\ foreign' = (left # <<>>)
    /\ UNCHANGED <<conn, sock, retry, blocked, wire, left, bridge, work, bounds>>

(* An unreadable status of our own version, a defect the planner reports. *)
BridgeOpensGarbled ==
    /\ faults < MaxFaults /\ faults' = faults + 1
    /\ peer = "accepted" /\ bridge.speaks = "ours"
    /\ peer' = "live"
    /\ inbox' = <<Unreadable>>
    /\ foreign' = (left # <<>>)
    /\ UNCHANGED <<conn, sock, retry, blocked, wire, left, bridge, work,
                   clicks, edits, others>>

BridgeReads ==
    /\ peer = "live" /\ wire # <<>>
    /\ IF Refuses(Head(wire))
           THEN Queue(<<ErrorMessage>>) /\ bridge' = bridge
           ELSE Takes(Head(wire)) /\ Publish
    /\ Unread(Tail(wire), left)
    /\ UNCHANGED <<conn, sock, retry, blocked, foreign, work, bounds>>

(* A frame of a socket the tab has dropped; an error finds nobody. *)
BridgeReadsLate ==
    /\ left # <<>>
    /\ IF Refuses(Head(left))
           THEN UNCHANGED <<bridge, inbox, peer>>
           ELSE Takes(Head(left)) /\ Publish
    /\ Unread(wire, Tail(left))
    /\ UNCHANGED <<conn, sock, retry, blocked, foreign, work, bounds>>

OtherPlanner(f) ==
    /\ others < MaxOthers /\ others' = others + 1
    /\ bridge.speaks = "ours" /\ ~Refuses(f)
    /\ Takes(f) /\ Publish
    /\ Unread(wire, left)
    /\ foreign' = TRUE
    /\ UNCHANGED <<conn, sock, retry, blocked, work, clicks, edits, faults>>

(* The bridge is stopped and started again, perhaps another release. *)
BridgeRestarts ==
    /\ faults < MaxFaults /\ faults' = faults + 1
    /\ \E speaks \in {"ours", "other"} : bridge' = EmptyBridge(speaks)
    /\ peer' = IF peer = "none" THEN "none" ELSE "cut"
    /\ wire' = <<>> /\ left' = <<>>
    /\ UNCHANGED <<tab, foreign, work, clicks, edits, others>>

(* The connection breaks under both ends. *)
LinkBreaks ==
    /\ faults < MaxFaults /\ faults' = faults + 1
    /\ peer \in {"accepted", "live"}
    /\ peer' = "cut"
    /\ \E n \in 0..Len(wire) : left' = left \o SubSeq(wire, 1, n)
    /\ wire' = <<>>
    /\ UNCHANGED <<tab, bridge, foreign, work, clicks, edits, others>>

-----------------------------------------------------------------------------
OtherFrames == {Snapshot(id) : id \in Ids} \cup {Announce(id) : id \in Ids}

Player == \/ TurnOn \/ TurnOff \/ ChangeAddress \/ ChooseAutoSend \/ Send
          \/ Edit

Socket == \/ SocketOpens \/ SocketFails \/ SocketCloses \/ HearClosed
          \/ RetryFires \/ HearMessage

Work == \/ \E id \in Ids : SolveDone(id)
        \/ \E b \in builds : BuildDone(b) \/ BuildFails(b)

Session == \/ BridgeOpens \/ BridgeOpensGarbled \/ BridgeReads
           \/ BridgeReadsLate \/ BridgeRestarts \/ LinkBreaks
           \/ \E f \in OtherFrames : OtherPlanner(f)

Next == Player \/ Socket \/ Work \/ Session

(* The event loops of the tab and of the bridge go on; nothing makes the    *)
(* player act, a fault happen or another planner send.                      *)
Fairness ==
    /\ WF_vars(SocketOpens \/ SocketCloses \/ HearClosed \/ RetryFires)
    /\ WF_vars(HearMessage)
    /\ WF_vars(\E id \in Ids : SolveDone(id))
    /\ WF_vars(\E b \in builds : BuildDone(b))
    /\ WF_vars(BridgeOpens)
    /\ WF_vars(BridgeReads)
    /\ WF_vars(BridgeReadsLate)

Spec == Init /\ [][Next]_vars /\ Fairness

-----------------------------------------------------------------------------
(* Properties. *)

(* The controller and the reducer agree: a timer or a socket event that     *)
(* races with a switch or a new socket never leaves a connection that waits *)
(* without a timer, a second socket, or a socket behind a connection that   *)
(* is off.                                                                  *)
SocketAgrees ==
    CASE conn.phase = "off" -> sock = "none" /\ ~retry
      [] conn.phase = "connecting" -> sock = "opening" /\ ~retry
      [] conn.phase = "open" -> sock \in {"open", "closing"} /\ ~retry
      [] conn.phase = "waiting" -> sock = "none" /\ retry

(* Nothing is on its way to a bridge whose first status this socket has not *)
(* heard, or that speaks another version.                                   *)
GreetedFirst ==
    wire # <<>> => peer = "live" /\ conn.first /\ bridge.speaks = "ours"

(* A restore finds an empty bridge, unless another planner, or a frame of a *)
(* socket dropped before, got there first.                                  *)
RestoreFillsEmpty ==
    \A i \in DOMAIN wire :
        wire[i].restore /\ ~foreign =>
            i = 1 /\ bridge.held = NoId /\ bridge.newest = NoId

Settled ==
    /\ sock = "open" /\ peer = "live"
    /\ wire = <<>> /\ inbox = <<>> /\ left = <<>>

(* With nothing in flight, the bridge's newest id is the plan the planner   *)
(* shows, whatever was lost, retried or restored before: only an error the  *)
(* player is shown, or another planner, can make it something else.         *)
NewestIsPlan ==
    Settled /\ CanSend(conn) /\ conn.plan # NoId /\ ~conn.error /\ ~foreign
        => bridge.newest = conn.plan

(* With nothing in flight, the badge and the status the player is shown are *)
(* the bridge's: no status is lost between the outbox and the page.         *)
ShownIsTrue ==
    Settled /\ conn.first =>
        /\ conn.status = StatusOf(bridge)
        /\ Badge(conn) = IF bridge.speaks = "ours" THEN "bridge"
                                                   ELSE "protocol-mismatch"

(* When no build is under way the plan is that of the latest solve: a build *)
(* of an older plan, or of a connection switched off since, never replaces  *)
(* it, and the connection never misses a solve.                             *)
PlanIsLatest ==
    conn.phase # "off" /\ builds = {} /\ ~solver.pending
        /\ solver.latest # NoId /\ ~conn.buildError
        => conn.plan = solver.latest

(* A connection that stays on, to an address the browser accepts, ends up   *)
(* with an open socket and everything said, whatever failed before.         *)
ReachesBridge ==
    <>[](conn.phase # "off" /\ ~blocked) =>
        <>[](Settled /\ (CanSend(conn) \/ Badge(conn) # "connecting"))
=============================================================================
