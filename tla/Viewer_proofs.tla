--------------------------- MODULE Viewer_proofs ---------------------------
(* The planner's connection, for every set of plans, whatever the bridge   *)
(* refuses and loses, and however the player, the solver, other planners   *)
(* and broken links come in between: the controller agrees with the        *)
(* reducer, nothing is said to a bridge that has not greeted, and a        *)
(* restore finds an empty bridge.                                          *)
EXTENDS Viewer, SequenceTheorems, TLAPS

(* What of the types the proof needs. *)
Typed ==
    /\ conn \in Connection
    /\ sock \in {"none", "opening", "open", "closing"}
    /\ retry \in BOOLEAN /\ blocked \in BOOLEAN
    /\ peer \in {"none", "accepted", "live", "cut"}
    /\ wire \in Seq(Frame) /\ left \in Seq(Frame)
    /\ inbox \in Seq(Message)
    /\ bridge \in [newest : MaybeId, held : MaybeId, speaks : {"ours", "other"}]
    /\ foreign \in BOOLEAN
    /\ solver \in [latest : MaybeId, pending : BOOLEAN]
    /\ builds \subseteq Build

(* A bridge that may be heard, or has accepted, has an open socket, and one *)
(* that is cut off has one the tab has not closed yet; only a               *)
(* live one is written to, and only an open socket has messages waiting,    *)
(* none before the bridge's first.                                          *)
LinkSound ==
    /\ peer \in {"accepted", "live"} => sock = "open"
    /\ sock \in {"none", "opening"} => peer = "none"
    /\ peer # "live" => wire = <<>>
    /\ sock # "open" \/ peer = "accepted" => inbox = <<>>
    /\ peer = "accepted" => ~conn.first

(* What waits in the inbox of a live socket, and what was concluded from    *)
(* it, is of the version the bridge speaks.                                 *)
Speaks(m) ==
    /\ m.kind \in {"status", "error"} => bridge.speaks = "ours"
    /\ m.kind = "foreign" => bridge.speaks = "other"
VersionKnown ==
    peer = "live" =>
        /\ \A i \in 1..Len(inbox) : Speaks(inbox[i])
        /\ conn.first /\ ~conn.mismatch => bridge.speaks = "ours"

(* Before its first status was heard, a bridge that nobody else has talked  *)
(* to is what that status says.                                             *)
Undisturbed ==
    peer = "live" /\ ~foreign =>
        /\ left = <<>>
        /\ ~conn.first => \A i \in 1..Len(inbox) : inbox[i] \in {StatusOf(bridge), Unreadable}

(* A restore is the first frame out. *)
RestoreLeads ==
    \A i \in 1..Len(wire) :
        wire[i].restore => i = 1 /\ (~foreign => bridge.held = NoId /\ bridge.newest = NoId)

VInv == /\ Typed /\ SocketAgrees /\ LinkSound /\ GreetedFirst
        /\ VersionKnown /\ Undisturbed /\ RestoreLeads

-----------------------------------------------------------------------------
(* The reducer. *)

LEMMA IdFacts == NoId \notin Ids /\ TooLarge \subseteq Ids
  BY ConnectionAssumption

LEMMA OneFrame ==
    ASSUME NEW f \in Frame
    PROVE  /\ <<f>> \in Seq(Frame) /\ Len(<<f>>) = 1 /\ <<f>>[1] = f
  OBVIOUS

(* A snapshot or an announce of a plan goes out as one frame, no restore.   *)
LEMMA SnapshotSent ==
    ASSUME NEW c \in Connection, NEW id \in Ids
    PROVE  LET t == SendingSnapshot(c, id)
           IN  /\ t.conn \in Connection /\ t.conn.phase = c.phase
               /\ t.conn.first = c.first /\ t.conn.mismatch = c.mismatch
               /\ t.conn.plan = c.plan
               /\ t.frames = <<Snapshot(id)>>
  BY DEF SendingSnapshot, Sends, Connection, MaybeId

LEMMA AnnounceSent ==
    ASSUME NEW c \in Connection, NEW id \in Ids
    PROVE  LET t == Announcing(c, id)
           IN  /\ t.conn \in Connection /\ t.conn.phase = c.phase
               /\ t.conn.first = c.first /\ t.conn.mismatch = c.mismatch
               /\ t.frames = <<Announce(id)>>
  BY DEF Announcing, Sends, Connection, MaybeId

LEMMA Delivered ==
    ASSUME NEW c \in Connection, NEW id \in Ids, NEW want \in BOOLEAN
    PROVE  LET t == Deliver(c, id, want)
           IN  /\ t.conn \in Connection /\ t.conn.phase = c.phase
               /\ t.conn.first = c.first /\ t.conn.mismatch = c.mismatch
               /\ \E f \in Frame : t.frames = <<f>> /\ ~f.restore
<1>1. Snapshot(id) \in Frame /\ ~Snapshot(id).restore
  BY DEF Snapshot, Frame
<1>2. Announce(id) \in Frame /\ ~Announce(id).restore
  BY DEF Announce, Frame
<1> QED
  BY <1>1, <1>2, SnapshotSent, AnnounceSent DEF Deliver

(* A first status makes the connection greeted, and restores only to a      *)
(* bridge that says it is empty, with the first frame.                      *)
LEMMA Greeted ==
    ASSUME NEW c \in Connection, NEW m \in Message, m.kind = "status"
    PROVE  LET t == Greet(c, m)
           IN  /\ t.conn \in Connection /\ t.conn.phase = c.phase
               /\ t.conn.first /\ ~t.conn.mismatch
               /\ t.frames \in Seq(Frame)
               /\ \A i \in 1..Len(t.frames) :
                    t.frames[i].restore => i = 1 /\ m.held = NoId /\ m.newest = NoId
<1> DEFINE seen == [c EXCEPT !.status = m, !.first = TRUE, !.unreadable = FALSE, !.mismatch = FALSE]
           restored == Restores(c, m)
           after == IF restored THEN SendingSnapshot(seen, c.lastSent).conn ELSE seen
           restore == IF restored THEN <<[Snapshot(c.lastSent) EXCEPT !.restore = TRUE]>> ELSE <<>>
<1>1. seen \in Connection /\ seen.phase = c.phase /\ seen.first /\ ~seen.mismatch
  BY DEF Connection, Message
<1>2. restored => c.lastSent \in Ids /\ m.held = NoId /\ m.newest = NoId
  BY DEF Restores, Connection, MaybeId
<1>3. after \in Connection /\ after.phase = c.phase /\ after.first /\ ~after.mismatch
  BY <1>1, <1>2, SnapshotSent
<1>4. restore \in Seq(Frame) /\ Len(restore) \in {0, 1} /\ (Len(restore) = 1 => restored)
  <2>1. CASE restored
    <3>1. [Snapshot(c.lastSent) EXCEPT !.restore = TRUE] \in Frame
      BY <1>2, <2>1 DEF Snapshot, Frame
    <3> QED
      BY <2>1, <3>1, OneFrame
  <2>2. CASE ~restored
    BY <2>2
  <2> QED
    BY <2>1, <2>2
<1> HIDE DEF seen, restored, after, restore
<1>5. CASE c.plan # NoId /\ ~HoldsPlan(c, m)
  <2>1. c.plan \in Ids
    BY <1>5 DEF Connection, MaybeId
  <2> DEFINE said == Announcing(after, c.plan).conn
  <2>2. said \in Connection /\ said.phase = c.phase /\ said.first /\ ~said.mismatch
    BY <1>3, <2>1, AnnounceSent
  <2>3. Greet(c, m) = Sends([said EXCEPT !.paired = restored], Append(restore, Announce(c.plan)))
    BY <1>5 DEF Greet, seen, restored, after, restore
  <2>4. [said EXCEPT !.paired = restored] \in Connection
    BY <2>2 DEF Connection, restored, Restores
  <2>5. Announce(c.plan) \in Frame /\ ~Announce(c.plan).restore
    BY <2>1 DEF Announce, Frame
  <2> QED
    BY <1>2, <1>4, <2>2, <2>3, <2>4, <2>5 DEF Sends, Connection
<1>6. CASE ~(c.plan # NoId /\ ~HoldsPlan(c, m))
  <2>1. Greet(c, m) = Sends(after, restore)
    BY <1>6 DEF Greet, seen, restored, after, restore
  <2> QED
    BY <1>2, <1>3, <1>4, <2>1 DEF Sends
<1> QED
  BY <1>5, <1>6

(* A frame from the bridge never moves the phase; only a first status is    *)
(* answered, and only it makes the connection greeted.                      *)
LEMMA TextHeard ==
    ASSUME NEW c \in Connection, NEW m \in Message
    PROVE  LET t == Text(c, m)
           IN  /\ t.conn \in Connection /\ t.conn.phase = c.phase
               /\ t.frames \in Seq(Frame)
               /\ t.frames # <<>> => c.phase = "open" /\ t.conn.first /\ ~c.first /\ ~t.conn.mismatch
               /\ t.frames # <<>> \/ (t.conn.first /\ ~c.first /\ ~t.conn.mismatch) => m.kind = "status"
               /\ c.first => t.conn.first /\ t.conn.mismatch = c.mismatch
               /\ \A i \in 1..Len(t.frames) :
                    t.frames[i].restore => i = 1 /\ m.held = NoId /\ m.newest = NoId
<1>1. CASE c.phase = "open" /\ m.kind \in {"status", "foreign"} /\ ~c.first
  <2>1. Text(c, m) = FirstStatus(c, m)
    BY <1>1 DEF Text
  <2>2. CASE m.kind = "foreign"
    <3> DEFINE d == [c EXCEPT !.status = m, !.first = TRUE, !.unreadable = FALSE, !.mismatch = TRUE]
    <3>1. Text(c, m) = Stay(d)
      BY <2>1, <2>2 DEF FirstStatus
    <3>2. d \in Connection /\ d.phase = c.phase /\ d.first /\ d.mismatch
      BY DEF Connection, Message
    <3> HIDE DEF d
    <3> QED
      BY <1>1, <2>2, <3>1, <3>2 DEF Stay, To
  <2>3. CASE m.kind = "status"
    BY <1>1, <2>1, <2>3, Greeted DEF FirstStatus
  <2> QED
    BY <1>1, <2>2, <2>3
<1>2. CASE ~(c.phase = "open" /\ m.kind \in {"status", "foreign"} /\ ~c.first)
  <2>1. \E d \in Connection : /\ Text(c, m) = Stay(d)
                              /\ d.phase = c.phase /\ d.first = c.first /\ d.mismatch = c.mismatch
    <3>1. CASE c.phase # "open"
      BY <3>1 DEF Text
    <3>2. CASE c.phase = "open" /\ m.kind = "unreadable"
      <4> DEFINE d == [c EXCEPT !.unreadable = TRUE]
      <4>1. Text(c, m) = Stay(d)
        BY <3>2 DEF Text
      <4>2. d \in Connection /\ d.phase = c.phase /\ d.first = c.first /\ d.mismatch = c.mismatch
        BY DEF Connection
      <4> QED
        BY <4>1, <4>2
    <3>3. CASE c.phase = "open" /\ m.kind = "error"
      <4> DEFINE d == [c EXCEPT !.error = TRUE,
                                !.lastSent = IF c.lastFrame = "snapshot" \/ c.paired THEN NoId ELSE @]
      <4>1. Text(c, m) = Stay(d)
        BY <3>3 DEF Text, BridgeError
      <4>2. d \in Connection /\ d.phase = c.phase /\ d.first = c.first /\ d.mismatch = c.mismatch
        BY DEF Connection, MaybeId
      <4> QED
        BY <4>1, <4>2
    <3>4. CASE c.phase = "open" /\ m.kind \in {"status", "foreign"} /\ c.first
      <4> DEFINE d == [c EXCEPT !.status = m, !.unreadable = FALSE]
      <4>1. Text(c, m) = Stay(d)
        BY <3>4 DEF Text
      <4>2. d \in Connection /\ d.phase = c.phase /\ d.first = c.first /\ d.mismatch = c.mismatch
        BY DEF Connection, Message
      <4> QED
        BY <4>1, <4>2
    <3> QED
      BY <1>2, <3>1, <3>2, <3>3, <3>4 DEF Message
  <2> QED
    BY <1>2, <2>1 DEF Stay, To
<1> QED
  BY <1>1, <1>2

(* Switching on and off, and what happens to sockets, of the reducer.       *)
LEMMA PhaseMoved ==
    ASSUME NEW c \in Connection
    PROVE  /\ c.phase = "off" => /\ Enable(c).effect = "connect" /\ Enable(c).conn \in Connection
                                 /\ Enable(c).conn.phase = "connecting"
           /\ c.phase # "off" => /\ Disable(c).conn \in Connection
                                 /\ Disable(c).conn.phase = "off" /\ ~Disable(c).conn.first
           /\ c.phase \in {"connecting", "open"} =>
                /\ Closed(c).effect = "scheduleRetry" /\ Closed(c).conn \in Connection
                /\ Closed(c).conn.phase = "waiting" /\ ~Closed(c).conn.first
           /\ c.phase = "connecting" =>
                /\ ConnectThrew(c).effect = "scheduleRetry" /\ ConnectThrew(c).conn \in Connection
                /\ ConnectThrew(c).conn.phase = "waiting" /\ ~ConnectThrew(c).conn.first
                /\ Opened(c).conn \in Connection
                /\ Opened(c).conn.phase = "open" /\ ~Opened(c).conn.first
           /\ c.phase = "waiting" => /\ Retry(c).effect = "connect" /\ Retry(c).conn \in Connection
                                     /\ Retry(c).conn.phase = "connecting"
<1>1. Ungreeted(c) \in Connection /\ ~Ungreeted(c).first
  BY DEF Ungreeted, Connection, MaybeId
<1>2. [Ungreeted(c) EXCEPT !.phase = "waiting"] \in Connection /\ [Ungreeted(c) EXCEPT !.phase = "open"] \in Connection
  BY <1>1 DEF Connection
<1>3. [InitialConnection(c.auto) EXCEPT !.lastSent = c.lastSent] \in Connection
  BY DEF InitialConnection, Connection, MaybeId
<1>4. [c EXCEPT !.phase = "connecting", !.error = FALSE] \in Connection /\ [c EXCEPT !.phase = "connecting"] \in Connection
  BY DEF Connection
<1> QED
  BY <1>1, <1>2, <1>3, <1>4 DEF Enable, Disable, Closed, ConnectThrew, Opened, Retry, Lose, To, Stay,
     InitialConnection, Connection

-----------------------------------------------------------------------------
(* The controller. *)

(* Creating a socket leaves the connection connecting or, if the browser    *)
(* refuses, waiting for the retry.                                          *)
LEMMA Connected ==
    ASSUME NEW t, Connect(t), t.conn \in Connection, t.conn.phase = "connecting", blocked' \in BOOLEAN
    PROVE  /\ conn' \in Connection
           /\ sock' \in {"none", "opening"} /\ retry' \in BOOLEAN
           /\ \/ conn'.phase = "connecting" /\ sock' = "opening" /\ ~retry'
              \/ conn'.phase = "waiting" /\ sock' = "none" /\ retry'
<1>1. CASE blocked'
  <2>1. conn' = ConnectThrew(t.conn).conn /\ sock' = "none" /\ retry' = TRUE
    BY <1>1, PhaseMoved DEF Connect, SchedulesRetry
  <2> QED
    BY <2>1, PhaseMoved
<1>2. CASE ~blocked'
  <2>1. conn' = t.conn /\ sock' = "opening" /\ retry' = FALSE
    BY <1>2 DEF Connect
  <2> QED
    BY <2>1, Zenon
<1> QED
  BY <1>1, <1>2

LEMMA Transmitted ==
    ASSUME NEW t, Transmit(t), t.conn \in Connection, t.frames \in Seq(Frame), wire \in Seq(Frame)
    PROVE  /\ conn' \in Connection /\ conn'.phase = t.conn.phase
           /\ conn'.first = t.conn.first /\ conn'.mismatch = t.conn.mismatch
           /\ wire' \in Seq(Frame)
           /\ wire' = wire \/ (peer = "live" /\ wire' = wire \o t.frames)
<1>1. CASE sock = "open" \/ t.frames = <<>>
  <2>1. conn' = t.conn /\ wire' = IF peer = "live" THEN wire \o t.frames ELSE wire
    BY <1>1 DEF Transmit
  <2>2. wire \o t.frames \in Seq(Frame)
    OBVIOUS
  <2> QED
    BY <2>1, <2>2
<1>2. CASE ~(sock = "open" \/ t.frames = <<>>)
  <2>1. conn' = SendFailed(t.conn, t.frames) /\ wire' = wire
    BY <1>2 DEF Transmit
  <2>2. SendFailed(t.conn, t.frames) \in Connection
    BY DEF SendFailed, Connection, MaybeId
  <2> QED
    BY <2>1, <2>2 DEF SendFailed, Connection
<1> QED
  BY <1>1, <1>2

LEMMA OutdatedBuilds ==
    ASSUME builds \subseteq Build PROVE Outdated(builds) \subseteq Build
  BY DEF Outdated, Build

LEMMA Rebuilt ==
    ASSUME NEW s \in [latest : MaybeId, pending : BOOLEAN], builds \subseteq Build, Rebuild(s)
    PROVE  builds' \subseteq Build
<1>1. s.latest # NoId => [id |-> s.latest, current |-> TRUE] \in Build
  BY DEF Build, MaybeId
<1> QED
  BY <1>1, OutdatedBuilds DEF Rebuild

LEMMA Dropped ==
    ASSUME DropSocket, wire \in Seq(Frame), left \in Seq(Frame)
    PROVE  wire' = <<>> /\ inbox' = <<>> /\ left' \in Seq(Frame)
  BY DEF DropSocket

LEMMA TurnOnKeeps == ASSUME VInv, TurnOn PROVE VInv'
<1> USE DEF VInv
<1>1. Enable(conn).conn \in Connection /\ Enable(conn).conn.phase = "connecting"
  BY PhaseMoved DEF TurnOn, Typed
<1>2. conn' \in Connection /\ sock' \in {"none", "opening"} /\ retry' \in BOOLEAN /\ SocketAgrees'
  BY <1>1, Connected DEF TurnOn, SocketAgrees, Typed
<1>3. builds' \subseteq Build
  BY Rebuilt DEF TurnOn, Typed
<1>4. sock = "none" /\ peer \in {"none", "cut"} /\ wire = <<>> /\ inbox = <<>>
  BY DEF TurnOn, SocketAgrees, LinkSound, Typed
<1> QED
  BY <1>2, <1>3, <1>4 DEF TurnOn, Typed, net, LinkSound, GreetedFirst, VersionKnown, Undisturbed, RestoreLeads

LEMMA TurnOffKeeps == ASSUME VInv, TurnOff PROVE VInv'
<1> USE DEF VInv
<1>1. conn' \in Connection /\ conn'.phase = "off"
  BY PhaseMoved DEF TurnOff, Typed
<1>2. builds' \subseteq Build
  BY OutdatedBuilds DEF TurnOff, Typed
<1>3. wire' = <<>> /\ inbox' = <<>> /\ left' \in Seq(Frame)
  BY Dropped DEF TurnOff, Typed
<1>4. Typed'
  <2>1. /\ sock' = "none" /\ peer' = "none" /\ retry' = FALSE
        /\ UNCHANGED <<blocked, bridge, foreign, solver>>
    BY DEF TurnOff
  <2>2. retry' \in BOOLEAN /\ blocked' \in BOOLEAN /\ foreign' \in BOOLEAN
    BY <2>1, Zenon DEF Typed
  <2> QED
    BY <1>1, <1>2, <1>3, <2>1, <2>2 DEF Typed
<1>5. SocketAgrees'
  BY <1>1 DEF TurnOff, SocketAgrees
<1> QED
  BY <1>3, <1>4, <1>5 DEF TurnOff, LinkSound, GreetedFirst, VersionKnown, Undisturbed, RestoreLeads

LEMMA ChangeAddressKeeps == ASSUME VInv, ChangeAddress PROVE VInv'
<1> USE DEF VInv
<1>1. LET t == Enable(Disable(conn).conn) IN t.conn \in Connection /\ t.conn.phase = "connecting"
  BY PhaseMoved DEF ChangeAddress, Typed
<1>2. conn' \in Connection /\ sock' \in {"none", "opening"} /\ retry' \in BOOLEAN /\ SocketAgrees'
  BY <1>1, Connected DEF ChangeAddress, SocketAgrees, Typed
<1>3. builds' \subseteq Build
  BY Rebuilt DEF ChangeAddress, Typed
<1>4. wire' = <<>> /\ inbox' = <<>> /\ left' \in Seq(Frame)
  BY Dropped DEF ChangeAddress, Typed
<1> QED
  BY <1>2, <1>3, <1>4 DEF ChangeAddress, Typed, LinkSound, GreetedFirst, VersionKnown, Undisturbed, RestoreLeads

LEMMA ChooseAutoSendKeeps == ASSUME VInv, ChooseAutoSend PROVE VInv'
<1> USE DEF VInv
<1>1. /\ conn' \in Connection /\ conn'.phase = conn.phase
      /\ conn'.first = conn.first /\ conn'.mismatch = conn.mismatch
  BY DEF ChooseAutoSend, SetAutoSend, Stay, To, Connection, Typed
<1> QED
  BY <1>1 DEF ChooseAutoSend, Typed, net, work, SocketAgrees, LinkSound, GreetedFirst, VersionKnown, Speaks,
     Undisturbed, StatusOf, RestoreLeads

(* What an open, greeted connection says by itself is no restore, and       *)
(* leaves all else as it was.                                               *)
LEMMA SaidKeeps ==
    ASSUME VInv, NEW t, Transmit(t), t.conn \in Connection, t.frames \in Seq(Frame),
           t.conn.phase = conn.phase, t.conn.first = conn.first, t.conn.mismatch = conn.mismatch,
           t.frames # <<>> => CanSend(conn) /\ \E f \in Frame : t.frames = <<f>> /\ ~f.restore,
           builds' \subseteq Build,
           UNCHANGED <<sock, retry, blocked, inbox, peer, left, bridge, foreign, solver>>
    PROVE  VInv'
<1> USE DEF VInv
<1>1. /\ conn' \in Connection /\ conn'.phase = conn.phase
      /\ conn'.first = conn.first /\ conn'.mismatch = conn.mismatch
      /\ wire' \in Seq(Frame)
      /\ wire' = wire \/ (peer = "live" /\ wire' = wire \o t.frames)
  BY Transmitted DEF Typed
<1>2. Typed'
  BY <1>1 DEF Typed
<1>3. SocketAgrees' /\ LinkSound'
  BY <1>1 DEF SocketAgrees, LinkSound
<1>4. VersionKnown' /\ Undisturbed'
  BY <1>1 DEF VersionKnown, Speaks, Undisturbed, StatusOf
<1>5. CASE wire' = wire
  BY <1>1, <1>2, <1>3, <1>4, <1>5 DEF GreetedFirst, RestoreLeads
<1>6. CASE peer = "live" /\ wire' = wire \o t.frames /\ t.frames # <<>>
  <2>1. PICK f \in Frame : t.frames = <<f>> /\ ~f.restore
    BY <1>6
  <2>2. GreetedFirst'
    BY <1>1, <1>6 DEF GreetedFirst, VersionKnown, CanSend
  <2>3. RestoreLeads'
    <3>1. wire' = Append(wire, f)
      BY <1>6, <2>1 DEF Typed
    <3>2. \A i \in 1..Len(wire') : wire'[i].restore => i \in 1..Len(wire) /\ wire'[i] = wire[i]
      BY <2>1, <3>1 DEF Typed
    <3> QED
      BY <3>2 DEF RestoreLeads
  <2> QED
    BY <1>2, <1>3, <1>4, <2>2, <2>3
<1>7. wire \o <<>> = wire
  BY DEF Typed
<1> QED
  BY <1>1, <1>5, <1>6, <1>7

LEMMA SendKeeps == ASSUME VInv, Send PROVE VInv'
<1>1. conn \in Connection /\ conn.plan \in Ids /\ CanSend(conn)
  BY DEF VInv, Typed, Send, Sendable, Connection, MaybeId
<1>2. PressSend(conn) = Deliver(conn, conn.plan, TRUE)
  BY DEF PressSend, Send, Sendable
<1>3. builds' \subseteq Build
  BY DEF VInv, Typed, Send, work
<1> DEFINE t == PressSend(conn)
<1>4. Transmit(t) /\ UNCHANGED <<sock, retry, blocked, inbox, peer, left, bridge, foreign, solver>>
  BY DEF Send, work
<1>5. /\ t.conn \in Connection /\ t.conn.phase = conn.phase
      /\ t.conn.first = conn.first /\ t.conn.mismatch = conn.mismatch
      /\ \E f \in Frame : t.frames = <<f>> /\ ~f.restore
  <2> DEFINE u == Deliver(conn, conn.plan, TRUE)
  <2>1. /\ u.conn \in Connection /\ u.conn.phase = conn.phase
        /\ u.conn.first = conn.first /\ u.conn.mismatch = conn.mismatch
        /\ \E f \in Frame : u.frames = <<f>> /\ ~f.restore
    BY <1>1, Delivered
  <2>2. t = u
    BY <1>2
  <2> HIDE DEF t, u
  <2> QED
    BY <2>1, <2>2
<1>6. t.frames \in Seq(Frame)
  BY <1>5
<1> HIDE DEF t
<1> QED
  BY <1>1, <1>3, <1>4, <1>5, <1>6, SaidKeeps

(* The plan of a build that is still the latest. *)
LEMMA SolvedSaid ==
    ASSUME NEW c \in Connection, NEW id \in Ids
    PROVE  LET t == Solved(c, id)
           IN  /\ t.conn \in Connection /\ t.frames \in Seq(Frame)
               /\ t.conn.phase = c.phase /\ t.conn.first = c.first /\ t.conn.mismatch = c.mismatch
               /\ t.frames # <<>> => CanSend(c) /\ \E f \in Frame : t.frames = <<f>> /\ ~f.restore
<1> DEFINE next == [c EXCEPT !.plan = id, !.buildError = FALSE]
<1>1. next \in Connection /\ next.phase = c.phase /\ next.first = c.first /\ next.mismatch = c.mismatch
      /\ next.unreadable = c.unreadable /\ next.auto \in BOOLEAN
  BY DEF Connection, MaybeId
<1>2. CASE c.phase = "off"
  <2>1. Solved(c, id) = Stay(c)
    BY <1>2 DEF Solved
  <2> QED
    BY <2>1 DEF Stay, To
<1>3. CASE c.phase # "off" /\ ~CanSend(next)
  <2>1. Solved(c, id) = Stay(next)
    BY <1>3 DEF Solved
  <2> HIDE DEF next
  <2> QED
    BY <1>1, <2>1 DEF Stay, To
<1>4. CASE c.phase # "off" /\ CanSend(next)
  <2>1. Solved(c, id) = Deliver(next, id, c.auto)
    BY <1>4 DEF Solved
  <2>2. c.auto \in BOOLEAN /\ CanSend(c)
    BY <1>1, <1>4 DEF CanSend, Connection
  <2> HIDE DEF next
  <2> DEFINE t == Deliver(next, id, c.auto)
  <2>3. /\ t.conn \in Connection /\ t.conn.phase = next.phase
        /\ t.conn.first = next.first /\ t.conn.mismatch = next.mismatch
        /\ \E f \in Frame : t.frames = <<f>> /\ ~f.restore
    BY <1>1, <2>2, Delivered
  <2>4. t.frames \in Seq(Frame)
    BY <2>3
  <2> HIDE DEF t
  <2> QED
    BY <1>1, <2>1, <2>2, <2>3, <2>4 DEF t
<1> QED
  BY <1>2, <1>3, <1>4

LEMMA BuildDoneKeeps == ASSUME VInv, NEW b \in builds, BuildDone(b) PROVE VInv'
<1>1. conn \in Connection /\ b.id \in Ids /\ builds' \subseteq Build
  BY DEF VInv, Typed, BuildDone, Build
<1>2. CASE ~b.current
  <2>1. UNCHANGED <<conn, wire, sock, retry, blocked, inbox, peer, left, bridge, foreign, solver>>
    BY <1>2 DEF BuildDone
  <2> QED
    BY <1>1, <2>1 DEF VInv, Typed, SocketAgrees, LinkSound, GreetedFirst, VersionKnown, Speaks, Undisturbed, StatusOf,
       RestoreLeads
<1>3. CASE b.current /\ conn.plan = b.id
  <2> DEFINE c == [conn EXCEPT !.buildError = FALSE]
  <2>1. Transmit(Stay(c))
    BY <1>3 DEF BuildDone, BuildCleared
  <2>2. c \in Connection /\ c.phase = conn.phase /\ c.first = conn.first /\ c.mismatch = conn.mismatch
    BY <1>1 DEF Connection
  <2>3. UNCHANGED <<sock, retry, blocked, inbox, peer, left, bridge, foreign, solver>>
    BY DEF BuildDone
  <2> DEFINE t == Stay(c)
  <2> HIDE DEF c
  <2>4. t.conn = c /\ t.frames = <<>> /\ t.frames \in Seq(Frame) /\ Transmit(t)
    BY <2>1 DEF Stay, To
  <2> HIDE DEF t
  <2> QED
    BY <1>1, <2>2, <2>3, <2>4, SaidKeeps
<1>4. CASE b.current /\ conn.plan # b.id
  <2>1. Transmit(Solved(conn, b.id)) /\ UNCHANGED <<sock, retry, blocked, inbox, peer, left, bridge, foreign, solver>>
    BY <1>4 DEF BuildDone
  <2> QED
    BY <1>1, <2>1, SolvedSaid, SaidKeeps
<1> QED
  BY <1>1, <1>2, <1>3, <1>4 DEF VInv, Typed, Build

LEMMA HearMessageKeeps == ASSUME VInv, HearMessage PROVE VInv'
<1> USE DEF VInv
<1> DEFINE m == Head(inbox)
           t == Text(conn, m)
<1>1. /\ sock = "open" /\ inbox # <<>> /\ Transmit(t) /\ inbox' = Tail(inbox)
      /\ UNCHANGED <<sock, retry, blocked, peer, left, bridge, foreign, solver, builds>>
  BY DEF HearMessage, work
<1>2. /\ m \in Message /\ m = inbox[1] /\ 1 \in 1..Len(inbox) /\ inbox' \in Seq(Message)
      /\ \A i \in 1..Len(inbox') : i + 1 \in 1..Len(inbox) /\ inbox'[i] = inbox[i + 1]
  BY <1>1 DEF Typed
<1>3. /\ t.conn \in Connection /\ t.conn.phase = conn.phase
      /\ t.frames \in Seq(Frame)
      /\ t.frames # <<>> => conn.phase = "open" /\ t.conn.first /\ ~conn.first /\ ~t.conn.mismatch
      /\ t.frames # <<>> \/ (t.conn.first /\ ~conn.first /\ ~t.conn.mismatch) => m.kind = "status"
      /\ conn.first => t.conn.first /\ t.conn.mismatch = conn.mismatch
      /\ \A i \in 1..Len(t.frames) :
           t.frames[i].restore => i = 1 /\ m.held = NoId /\ m.newest = NoId
  BY <1>2, TextHeard DEF Typed
<1> HIDE DEF t, m
<1>4. /\ conn' \in Connection /\ conn'.phase = conn.phase
      /\ conn'.first = t.conn.first /\ conn'.mismatch = t.conn.mismatch
      /\ wire' \in Seq(Frame)
      /\ wire' = wire \/ (peer = "live" /\ wire' = wire \o t.frames)
  BY <1>1, <1>3, Transmitted DEF Typed
<1>5. Typed'
  BY <1>1, <1>2, <1>4 DEF Typed
<1>6. SocketAgrees' /\ LinkSound'
  BY <1>1, <1>4 DEF SocketAgrees, LinkSound
<1>7. peer = "live" => (m.kind = "status" => bridge.speaks = "ours")
  BY <1>2 DEF VersionKnown, Speaks
<1>8. VersionKnown'
  <2>1. ASSUME peer = "live", NEW i \in 1..Len(inbox') PROVE Speaks(inbox'[i])
    BY <1>1, <1>2, <2>1 DEF VersionKnown, Speaks
  <2>2. ASSUME peer = "live", conn'.first, ~conn'.mismatch PROVE bridge.speaks = "ours"
    BY <1>3, <1>4, <1>7, <2>2 DEF VersionKnown
  <2> QED
    BY <1>1, <2>1, <2>2 DEF VersionKnown, Speaks
<1>9. Undisturbed'
  BY <1>1, <1>2, <1>3, <1>4 DEF Undisturbed, StatusOf
<1>10. CASE wire' = wire
  BY <1>1, <1>3, <1>4, <1>5, <1>6, <1>8, <1>9, <1>10 DEF GreetedFirst, RestoreLeads
<1>11. CASE peer = "live" /\ wire' = wire \o t.frames /\ t.frames # <<>>
  <2>0. wire = <<>>
    BY <1>3, <1>11 DEF GreetedFirst
  <2>1. wire = <<>> /\ wire' = t.frames
    <3>1. <<>> \o t.frames = t.frames
      BY <1>3
    <3> QED
      BY <2>0, <3>1, <1>11
  <2>2. GreetedFirst'
    BY <1>1, <1>3, <1>4, <1>7, <1>11 DEF GreetedFirst
  <2>3. ~foreign => m = StatusOf(bridge) \/ m = Unreadable
    BY <1>2, <1>3, <1>11 DEF Undisturbed
  <2>4. ~foreign /\ m.held = NoId /\ m.newest = NoId => bridge.held = NoId /\ bridge.newest = NoId
    BY <1>3, <1>7, <1>11, <2>3 DEF StatusOf, Unreadable
  <2>5. RestoreLeads'
    BY <1>1, <1>3, <2>1, <2>4 DEF RestoreLeads
  <2> QED
    BY <1>5, <1>6, <1>8, <1>9, <2>2, <2>5
<1>12. wire \o <<>> = wire
  BY DEF Typed
<1> QED
  BY <1>4, <1>10, <1>11, <1>12

LEMMA SocketOpensKeeps == ASSUME VInv, SocketOpens PROVE VInv'
<1> USE DEF VInv
<1>1. /\ conn \in Connection /\ conn.phase = "connecting" /\ ~retry
      /\ inbox = <<>> /\ wire = <<>>
  BY DEF SocketOpens, Typed, SocketAgrees, LinkSound, Connection
<1>2. conn' \in Connection /\ conn'.phase = "open" /\ ~conn'.first
  BY <1>1, PhaseMoved DEF SocketOpens
<1>3. /\ sock' = "open" /\ peer' = "accepted"
      /\ UNCHANGED <<retry, blocked, inbox, wire, left, bridge, foreign, solver, builds>>
  BY DEF SocketOpens, work
<1>4. Typed' /\ SocketAgrees'
  BY <1>1, <1>2, <1>3 DEF Typed, SocketAgrees
<1> QED
  BY <1>1, <1>2, <1>3, <1>4 DEF LinkSound, GreetedFirst, VersionKnown, Undisturbed, RestoreLeads

(* A socket that is gone before it opened, or after. *)
LEMMA ClosedKeeps ==
    ASSUME VInv, sock \in {"opening", "closing"}, sock' = "none", peer' = "none",
           conn' = Closed(conn).conn, retry' = SchedulesRetry(Closed(conn)),
           UNCHANGED <<blocked, inbox, wire, left, bridge, foreign, solver, builds>>
    PROVE  VInv'
<1> USE DEF VInv
<1>1. /\ conn \in Connection /\ conn.phase \in {"connecting", "open"}
      /\ inbox = <<>> /\ wire = <<>>
  BY DEF Typed, SocketAgrees, LinkSound, Connection
<1>2. conn' \in Connection /\ conn'.phase = "waiting" /\ retry' = TRUE
  BY <1>1, PhaseMoved DEF SchedulesRetry
<1>3. Typed' /\ SocketAgrees'
  BY <1>2 DEF Typed, SocketAgrees
<1> QED
  BY <1>1, <1>2, <1>3 DEF LinkSound, GreetedFirst, VersionKnown, Undisturbed, RestoreLeads

LEMMA SocketFailsKeeps == ASSUME VInv, SocketFails PROVE VInv'
<1>1. peer = "none"
  BY DEF VInv, LinkSound, SocketFails
<1> QED
  BY <1>1, ClosedKeeps DEF SocketFails, net, work

LEMMA SocketClosesKeeps == ASSUME VInv, SocketCloses PROVE VInv'
<1> USE DEF VInv
<1>1. /\ sock = "open" /\ peer = "cut" /\ sock' = "closing" /\ inbox' = <<>>
      /\ UNCHANGED <<conn, retry, blocked, peer, wire, left, bridge, foreign, solver, builds>>
  BY DEF SocketCloses, net, work
<1>2. conn \in Connection /\ conn.phase = "open" /\ ~retry
  BY <1>1 DEF Typed, SocketAgrees, Connection
<1>3. Typed' /\ SocketAgrees'
  BY <1>1, <1>2 DEF Typed, SocketAgrees
<1> QED
  BY <1>1, <1>3 DEF LinkSound, GreetedFirst, VersionKnown, Undisturbed, RestoreLeads

LEMMA HearClosedKeeps == ASSUME VInv, HearClosed PROVE VInv'
  BY ClosedKeeps DEF HearClosed, work

LEMMA RetryFiresKeeps == ASSUME VInv, RetryFires PROVE VInv'
<1> USE DEF VInv
<1>1. /\ conn \in Connection /\ conn.phase = "waiting"
      /\ sock = "none" /\ inbox = <<>> /\ wire = <<>> /\ peer \in {"none", "cut"}
  BY DEF RetryFires, Typed, SocketAgrees, LinkSound, Connection
<1>2. Retry(conn).conn \in Connection /\ Retry(conn).conn.phase = "connecting"
  BY <1>1, PhaseMoved
<1>3. /\ UNCHANGED <<blocked, inbox, peer, wire, left, bridge, foreign, solver, builds>>
      /\ Connect(Retry(conn))
  BY DEF RetryFires, net, work
<1>4. blocked' \in BOOLEAN
  BY <1>3, Zenon DEF Typed
<1>5. conn' \in Connection /\ sock' \in {"none", "opening"} /\ retry' \in BOOLEAN /\ SocketAgrees'
  BY <1>2, <1>3, <1>4, Connected DEF SocketAgrees
<1>6. Typed'
  BY <1>3, <1>4, <1>5 DEF Typed
<1> QED
  BY <1>1, <1>3, <1>5, <1>6 DEF LinkSound, GreetedFirst, VersionKnown, Undisturbed, RestoreLeads

-----------------------------------------------------------------------------
(* The solver and the builds. *)

(* What is neither said nor heard. *)
LEMMA SilentKeeps ==
    ASSUME VInv, solver' \in [latest : MaybeId, pending : BOOLEAN], builds' \subseteq Build,
           conn' \in Connection, conn'.phase = conn.phase,
           conn'.first = conn.first, conn'.mismatch = conn.mismatch,
           UNCHANGED <<sock, retry, blocked, inbox, peer, wire, left, bridge, foreign>>
    PROVE  VInv'
  BY DEF VInv, Typed, SocketAgrees, LinkSound, GreetedFirst, VersionKnown, Speaks, Undisturbed, StatusOf, RestoreLeads

LEMMA EditKeeps == ASSUME VInv, Edit PROVE VInv'
<1>1. solver' \in [latest : MaybeId, pending : BOOLEAN]
  BY DEF Edit, VInv, Typed
<1>2. builds' \subseteq Build
  BY OutdatedBuilds DEF Edit, VInv, Typed
<1>3. UNCHANGED <<conn, sock, retry, blocked, inbox, peer, wire, left, bridge, foreign>>
  BY DEF Edit, tab, net
<1> QED
  BY <1>1, <1>2, <1>3, SilentKeeps DEF VInv, Typed

LEMMA SolveDoneKeeps == ASSUME VInv, NEW id \in Ids, SolveDone(id) PROVE VInv'
<1>1. solver' \in [latest : MaybeId, pending : BOOLEAN]
  BY DEF SolveDone, MaybeId
<1>2. builds' \subseteq Build
  BY <1>1, OutdatedBuilds, Rebuilt DEF SolveDone, VInv, Typed
<1>3. UNCHANGED <<conn, sock, retry, blocked, inbox, peer, wire, left, bridge, foreign>>
  BY DEF SolveDone, tab, net
<1> QED
  BY <1>1, <1>2, <1>3, SilentKeeps DEF VInv, Typed

LEMMA BuildFailsKeeps == ASSUME VInv, NEW b \in builds, BuildFails(b) PROVE VInv'
<1>1. /\ conn' \in Connection /\ conn'.phase = conn.phase
      /\ conn'.first = conn.first /\ conn'.mismatch = conn.mismatch
  <2>1. conn \in Connection
    BY DEF VInv, Typed
  <2>2. conn' = conn \/ conn' = [conn EXCEPT !.buildError = TRUE]
    BY DEF BuildFails, BuildFailed, Stay, To
  <2> QED
    BY <2>1, <2>2 DEF Connection
<1>2. builds' \subseteq Build
  BY DEF BuildFails, VInv, Typed
<1>3. UNCHANGED <<solver, sock, retry, blocked, inbox, peer, wire, left, bridge, foreign>>
  BY DEF BuildFails, net
<1> QED
  BY <1>1, <1>2, <1>3, SilentKeeps DEF VInv, Typed

-----------------------------------------------------------------------------
(* The bridge. *)

LEMMA MessagesTyped ==
    ASSUME NEW b \in [newest : MaybeId, held : MaybeId, speaks : {"ours", "other"}]
    PROVE  /\ StatusOf(b) \in Message /\ Unreadable \in Message /\ ErrorMessage \in Message
           /\ StatusOf(b).kind = IF b.speaks = "ours" THEN "status" ELSE "foreign"
           /\ Unreadable.kind = "unreadable" /\ ErrorMessage.kind = "error"
  BY DEF StatusOf, Unreadable, ErrorMessage, Message, MaybeId

(* The start of a sequence of frames. *)
LEMMA FirstFrames ==
    ASSUME NEW s \in Seq(Frame), NEW n \in 0..Len(s)
    PROVE  SubSeq(s, 1, n) \in Seq(Frame)
  OBVIOUS

(* The first message of a connection. *)
LEMMA OpensKeeps ==
    ASSUME VInv, peer = "accepted", peer' = "live", NEW m \in {StatusOf(bridge), Unreadable}, inbox' = <<m>>,
           foreign' = (left # <<>>),
           UNCHANGED <<conn, sock, retry, blocked, wire, left, bridge, solver, builds>>
    PROVE  VInv'
<1> USE DEF VInv
<1>1. /\ m \in Message /\ inbox' \in Seq(Message) /\ Len(inbox') = 1 /\ inbox'[1] = m /\ Speaks(m)
  BY MessagesTyped DEF Typed, Speaks
<1>2. ~conn.first /\ wire = <<>> /\ sock = "open"
  BY DEF LinkSound
<1>3. Typed'
  <2>1. foreign' \in BOOLEAN
    BY Zenon
  <2> QED
    BY <1>1, <2>1 DEF Typed
<1>4. SocketAgrees' /\ LinkSound' /\ GreetedFirst' /\ RestoreLeads'
  <2>1. SocketAgrees'
    BY DEF SocketAgrees
  <2>2. LinkSound'
    BY <1>2 DEF LinkSound
  <2>3. GreetedFirst' /\ RestoreLeads'
    BY <1>2 DEF GreetedFirst, RestoreLeads
  <2> QED
    BY <2>1, <2>2, <2>3
<1>5. VersionKnown'
  BY <1>1, <1>2 DEF VersionKnown, Speaks
<1>6. Undisturbed'
  <2>1. ~foreign' => left' = <<>>
    BY Zenon
  <2>2. \A i \in 1..Len(inbox') : inbox'[i] \in {StatusOf(bridge), Unreadable}
    BY <1>1
  <2>3. StatusOf(bridge)' = StatusOf(bridge)
    BY DEF StatusOf
  <2> QED
    BY <2>1, <2>2, <2>3 DEF Undisturbed
<1> QED
  BY <1>3, <1>4, <1>5, <1>6

LEMMA BridgeOpensKeeps == ASSUME VInv, BridgeOpens PROVE VInv'
  BY OpensKeeps DEF BridgeOpens, work

LEMMA BridgeOpensGarbledKeeps == ASSUME VInv, BridgeOpensGarbled PROVE VInv'
  BY OpensKeeps DEF BridgeOpensGarbled, work

LEMMA Queued ==
    ASSUME NEW m \in Message, inbox \in Seq(Message), Queue(<<m>>), peer = "live"
    PROVE  /\ inbox' \in Seq(Message)
           /\ peer' \in {"live", "cut"}
           /\ \A i \in 1..Len(inbox') : (i \in 1..Len(inbox) /\ inbox'[i] = inbox[i]) \/ inbox'[i] = m
<1>1. CASE inbox' = inbox \o <<m>> /\ peer' = peer
  BY <1>1
<1>2. CASE inbox' = inbox /\ peer' = "cut"
  BY <1>2
<1> QED
  BY <1>1, <1>2 DEF Queue

LEMMA Published ==
    ASSUME Typed, Publish, bridge' \in [newest : MaybeId, held : MaybeId, speaks : {"ours", "other"}]
    PROVE  /\ inbox' \in Seq(Message)
           /\ peer # "live" => UNCHANGED <<inbox, peer>>
           /\ peer = "live" => peer' \in {"live", "cut"}
           /\ \A i \in 1..Len(inbox') :
                (i \in 1..Len(inbox) /\ inbox'[i] = inbox[i]) \/ inbox'[i] = StatusOf(bridge')
<1>1. CASE peer = "live" /\ StatusOf(bridge') # StatusOf(bridge)
  BY <1>1, MessagesTyped, Queued DEF Publish, Typed
<1>2. CASE UNCHANGED <<inbox, peer>>
  BY <1>2 DEF Typed
<1> QED
  BY <1>1, <1>2 DEF Publish

(* A frame is handled: what waits for its sender, and what else it sent.    *)
LEMMA HandledKeeps ==
    ASSUME VInv, UNCHANGED <<conn, sock, retry, blocked, solver, builds>>,
           bridge' \in [newest : MaybeId, held : MaybeId, speaks : {"ours", "other"}],
           bridge'.speaks = bridge.speaks, foreign' \in BOOLEAN,
           inbox' \in Seq(Message), peer # "live" => UNCHANGED <<inbox, peer>>,
           peer = "live" => peer' \in {"live", "cut"},
           \A i \in 1..Len(inbox') : (i \in 1..Len(inbox) /\ inbox'[i] = inbox[i]) \/ Speaks(inbox'[i]),
           NEW own \in Seq(Frame), NEW late \in Seq(Frame), Unread(own, late),
           own # <<>> => wire # <<>>
    PROVE  /\ Typed' /\ SocketAgrees' /\ LinkSound' /\ GreetedFirst' /\ VersionKnown'
           /\ peer' = "live" => wire' = own /\ left' = late /\ peer = "live"
           /\ peer' # "live" => wire' = <<>>
<1> USE DEF VInv
<1>1. /\ left' \in Seq(Frame) /\ wire' \in Seq(Frame)
      /\ peer' = "live" => wire' = own /\ left' = late /\ peer = "live"
      /\ peer' # "live" => wire' = <<>>
  <2>1. CASE peer = "live" /\ peer' = "cut"
    <3>1. PICK n \in 0..Len(own) : left' = late \o SubSeq(own, 1, n) /\ wire' = <<>>
      BY <2>1 DEF Unread
    <3>2. SubSeq(own, 1, n) \in Seq(Frame)
      BY FirstFrames
    <3> QED
      BY <2>1, <3>1, <3>2
  <2>2. CASE ~(peer = "live" /\ peer' = "cut")
    <3>1. wire' = own /\ left' = late
      BY <2>2 DEF Unread
    <3> QED
      BY <2>2, <3>1 DEF LinkSound
  <2> QED
    BY <2>1, <2>2
<1>2. peer' \in {"none", "accepted", "live", "cut"}
  BY DEF Typed
<1>3. Typed'
  BY <1>1, <1>2 DEF Typed
<1>4. SocketAgrees'
  BY DEF SocketAgrees
<1>5. LinkSound'
  BY <1>1 DEF LinkSound
<1>6. GreetedFirst'
  BY <1>1 DEF GreetedFirst
<1>7. VersionKnown'
  BY <1>1 DEF VersionKnown, Speaks
<1> QED
  BY <1>1, <1>3, <1>4, <1>5, <1>6, <1>7

(* A frame that is taken or refused, while the sender listens or after.     *)
LEMMA FrameHandled ==
    ASSUME VInv, NEW f \in Frame, Takes(f)
    PROVE  /\ bridge' \in [newest : MaybeId, held : MaybeId, speaks : {"ours", "other"}]
           /\ bridge'.speaks = bridge.speaks
  BY DEF VInv, Typed, Takes, Frame, MaybeId

LEMMA BridgeReadsKeeps == ASSUME VInv, BridgeReads PROVE VInv'
<1> USE DEF VInv
<1>1. /\ peer = "live" /\ wire # <<>> /\ Unread(Tail(wire), left)
      /\ UNCHANGED <<conn, sock, retry, blocked, foreign, solver, builds>>
  BY DEF BridgeReads, work
<1>2. /\ Head(wire) \in Frame /\ Tail(wire) \in Seq(Frame) /\ left \in Seq(Frame)
      /\ \A i \in 1..Len(Tail(wire)) : i + 1 \in 1..Len(wire) /\ Tail(wire)[i] = wire[i + 1]
  BY <1>1 DEF Typed
<1>3. bridge.speaks = "ours" /\ conn.first
  BY <1>1 DEF GreetedFirst
<1>4. /\ bridge' \in [newest : MaybeId, held : MaybeId, speaks : {"ours", "other"}]
      /\ bridge'.speaks = "ours"
      /\ inbox' \in Seq(Message) /\ peer' \in {"live", "cut"}
      /\ \A i \in 1..Len(inbox') : (i \in 1..Len(inbox) /\ inbox'[i] = inbox[i]) \/ Speaks(inbox'[i])
  <2>1. CASE Refuses(Head(wire))
    <3>1. Queue(<<ErrorMessage>>) /\ bridge' = bridge
      BY <2>1 DEF BridgeReads
    <3>2. ErrorMessage \in Message /\ Speaks(ErrorMessage)
      BY <1>3, MessagesTyped DEF Speaks, Typed
    <3> QED
      BY <1>1, <1>3, <3>1, <3>2, Queued DEF Typed
  <2>2. CASE ~Refuses(Head(wire))
    <3>1. Takes(Head(wire)) /\ Publish
      BY <2>2 DEF BridgeReads
    <3>2. /\ bridge' \in [newest : MaybeId, held : MaybeId, speaks : {"ours", "other"}]
          /\ bridge'.speaks = "ours"
      BY <1>2, <1>3, <3>1, FrameHandled
    <3>3. Speaks(StatusOf(bridge'))
      BY <1>3, <3>2, MessagesTyped DEF Speaks
    <3> QED
      BY <1>1, <3>1, <3>2, <3>3, Published
  <2> QED
    BY <2>1, <2>2
<1>5. foreign' \in BOOLEAN
  BY <1>1, Zenon DEF Typed
<1>6. /\ Typed' /\ SocketAgrees' /\ LinkSound' /\ GreetedFirst' /\ VersionKnown'
      /\ peer' = "live" => wire' = Tail(wire) /\ left' = left /\ peer = "live"
      /\ peer' # "live" => wire' = <<>>
  BY <1>1, <1>2, <1>3, <1>4, <1>5, HandledKeeps
<1>7. Undisturbed'
  BY <1>1, <1>3, <1>6 DEF Undisturbed
<1>8. \A i \in 1..Len(wire') : ~wire'[i].restore
  BY <1>2, <1>6 DEF RestoreLeads
<1> QED
  BY <1>6, <1>7, <1>8 DEF RestoreLeads

(* A frame from elsewhere: the sender, if there is one, was told of others  *)
(* or is told now.                                                          *)
LEMMA ElsewhereKeeps ==
    ASSUME VInv, NEW f \in Frame, NEW late \in Seq(Frame), Unread(wire, late), foreign' \in BOOLEAN,
           (bridge' = bridge /\ UNCHANGED <<inbox, peer>>) \/ (Takes(f) /\ Publish),
           UNCHANGED <<conn, sock, retry, blocked, solver, builds>>,
           peer = "live" => foreign'
    PROVE  VInv'
<1> USE DEF VInv
<1>1. /\ bridge' \in [newest : MaybeId, held : MaybeId, speaks : {"ours", "other"}]
      /\ bridge'.speaks = bridge.speaks
      /\ inbox' \in Seq(Message)
      /\ peer # "live" => UNCHANGED <<inbox, peer>>
      /\ peer = "live" => peer' \in {"live", "cut"}
      /\ \A i \in 1..Len(inbox') : (i \in 1..Len(inbox) /\ inbox'[i] = inbox[i]) \/ Speaks(inbox'[i])
  <2>1. CASE bridge' = bridge /\ UNCHANGED <<inbox, peer>>
    BY <2>1 DEF Typed
  <2>2. CASE Takes(f) /\ Publish
    <3>1. /\ bridge' \in [newest : MaybeId, held : MaybeId, speaks : {"ours", "other"}]
          /\ bridge'.speaks = bridge.speaks
      BY <2>2, FrameHandled
    <3>2. Speaks(StatusOf(bridge'))
      BY <3>1, MessagesTyped DEF Speaks
    <3> QED
      BY <2>2, <3>1, <3>2, Published
  <2> QED
    BY <2>1, <2>2
<1>2. /\ Typed' /\ SocketAgrees' /\ LinkSound' /\ GreetedFirst' /\ VersionKnown'
      /\ peer' = "live" => wire' = wire /\ left' = late /\ peer = "live"
      /\ peer' # "live" => wire' = <<>>
  BY <1>1, HandledKeeps DEF Typed
<1>3. Undisturbed'
  BY <1>2 DEF Undisturbed
<1>4. RestoreLeads'
  BY <1>2 DEF RestoreLeads
<1> QED
  BY <1>2, <1>3, <1>4

LEMMA BridgeReadsLateKeeps == ASSUME VInv, BridgeReadsLate PROVE VInv'
<1>1. /\ Head(left) \in Frame /\ Tail(left) \in Seq(Frame)
  BY DEF BridgeReadsLate, VInv, Typed
<1>2. peer = "live" => foreign
  BY DEF BridgeReadsLate, VInv, Undisturbed
<1>3. foreign' = foreign /\ foreign \in BOOLEAN
  BY Zenon DEF BridgeReadsLate, VInv, Typed
<1>4. \/ bridge' = bridge /\ UNCHANGED <<inbox, peer>>
      \/ Takes(Head(left)) /\ Publish
  BY DEF BridgeReadsLate
<1>5. Unread(wire, Tail(left)) /\ UNCHANGED <<conn, sock, retry, blocked, solver, builds>>
  BY DEF BridgeReadsLate, work
<1>6. foreign' \in BOOLEAN /\ (peer = "live" => foreign')
  BY <1>2, <1>3, Zenon
<1> DEFINE f == Head(left)
           late == Tail(left)
<1>7. /\ f \in Frame /\ late \in Seq(Frame) /\ Unread(wire, late)
      /\ (bridge' = bridge /\ UNCHANGED <<inbox, peer>>) \/ (Takes(f) /\ Publish)
  BY <1>1, <1>4, <1>5
<1> HIDE DEF f, late
<1> QED
  BY <1>5, <1>6, <1>7, ElsewhereKeeps

LEMMA OtherFramesTyped == ASSUME NEW f \in OtherFrames PROVE f \in Frame
<1>1. CASE f \in {Snapshot(id) : id \in Ids}
  <2>1. PICK id \in Ids : f = Snapshot(id)
    BY <1>1, Zenon
  <2> QED
    BY <2>1 DEF Snapshot, Frame
<1>2. CASE f \in {Announce(id) : id \in Ids}
  <2>1. PICK id \in Ids : f = Announce(id)
    BY <1>2, Zenon
  <2> QED
    BY <2>1 DEF Announce, Frame
<1> QED
  BY <1>1, <1>2, Zenon DEF OtherFrames

LEMMA OtherPlannerKeeps == ASSUME VInv, NEW f \in OtherFrames, OtherPlanner(f) PROVE VInv'
<1>1. f \in Frame
  BY OtherFramesTyped
<1>2. foreign' = TRUE /\ left \in Seq(Frame)
  BY DEF OtherPlanner, VInv, Typed
<1>3. Takes(f) /\ Publish /\ Unread(wire, left) /\ UNCHANGED <<conn, sock, retry, blocked, solver, builds>>
  BY DEF OtherPlanner, work
<1> QED
  BY <1>1, <1>2, <1>3, ElsewhereKeeps

LEMMA BridgeRestartsKeeps == ASSUME VInv, BridgeRestarts PROVE VInv'
<1> USE DEF VInv
<1>1. /\ bridge' \in [newest : MaybeId, held : MaybeId, speaks : {"ours", "other"}]
      /\ peer' \in {"none", "cut"} /\ (peer' = "none" <=> peer = "none")
      /\ wire' = <<>> /\ left' = <<>>
      /\ UNCHANGED <<conn, sock, retry, blocked, inbox, foreign, solver, builds>>
  BY DEF BridgeRestarts, EmptyBridge, MaybeId, tab, work
<1>2. Typed'
  BY <1>1 DEF Typed
<1>3. SocketAgrees'
  BY <1>1 DEF SocketAgrees
<1>4. LinkSound'
  BY <1>1 DEF LinkSound
<1>5. GreetedFirst' /\ VersionKnown' /\ Undisturbed'
  BY <1>1 DEF GreetedFirst, VersionKnown, Undisturbed
<1>6. RestoreLeads'
  BY <1>1 DEF RestoreLeads
<1> QED
  BY <1>2, <1>3, <1>4, <1>5, <1>6

LEMMA LinkBreaksKeeps == ASSUME VInv, LinkBreaks PROVE VInv'
<1> USE DEF VInv
<1>1. PICK n \in 0..Len(wire) : left' = left \o SubSeq(wire, 1, n)
  BY DEF LinkBreaks
<1>2. SubSeq(wire, 1, n) \in Seq(Frame) /\ left' \in Seq(Frame)
  BY <1>1, FirstFrames DEF Typed
<1>3. /\ peer \in {"accepted", "live"} /\ peer' = "cut" /\ wire' = <<>>
      /\ UNCHANGED <<conn, sock, retry, blocked, inbox, bridge, foreign, solver, builds>>
  BY DEF LinkBreaks, tab, work
<1>4. Typed'
  BY <1>2, <1>3 DEF Typed
<1>5. SocketAgrees'
  BY <1>3 DEF SocketAgrees
<1>6. LinkSound'
  BY <1>3 DEF LinkSound
<1>7. GreetedFirst' /\ VersionKnown' /\ Undisturbed'
  BY <1>3 DEF GreetedFirst, VersionKnown, Undisturbed
<1>8. RestoreLeads'
  BY <1>3 DEF RestoreLeads
<1> QED
  BY <1>4, <1>5, <1>6, <1>7, <1>8

-----------------------------------------------------------------------------
LEMMA InitGood == Init => VInv
<1> SUFFICES ASSUME Init PROVE VInv
  OBVIOUS
<1>1. conn \in Connection /\ conn.phase = "off" /\ ~conn.first
  BY DEF Init, InitialConnection, Connection, MaybeId
<1>2. bridge \in [newest : MaybeId, held : MaybeId, speaks : {"ours", "other"}]
  BY DEF Init, EmptyBridge, MaybeId
<1>3. solver \in [latest : MaybeId, pending : BOOLEAN]
  BY DEF Init
<1>4. Typed
  <2>1. blocked \in BOOLEAN
    BY Zenon DEF Init
  <2>2. /\ sock \in {"none", "opening", "open", "closing"}
        /\ retry \in BOOLEAN /\ foreign \in BOOLEAN
        /\ peer \in {"none", "accepted", "live", "cut"}
        /\ builds \subseteq Build
    BY DEF Init
  <2>3. /\ wire \in Seq(Frame) /\ left \in Seq(Frame) /\ inbox \in Seq(Message)
    BY DEF Init
  <2> QED
    BY <1>1, <1>2, <1>3, <2>1, <2>2, <2>3 DEF Typed
<1> QED
  BY <1>1, <1>4 DEF VInv, Init, SocketAgrees, LinkSound, GreetedFirst, VersionKnown, Undisturbed, RestoreLeads

(* The inductive invariant of the tab and its bridge. *)
THEOREM ViewerInvariant == Spec => []VInv
<1>1. VInv /\ [Next]_vars => VInv'
  <2> SUFFICES ASSUME VInv, [Next]_vars PROVE VInv'
    OBVIOUS
  <2>1. CASE Player
    BY <2>1, TurnOnKeeps, TurnOffKeeps, ChangeAddressKeeps, ChooseAutoSendKeeps, SendKeeps, EditKeeps DEF Player
  <2>2. CASE Socket
    BY <2>2, SocketOpensKeeps, SocketFailsKeeps, SocketClosesKeeps, HearClosedKeeps, RetryFiresKeeps,
       HearMessageKeeps DEF Socket
  <2>3. CASE Work
    BY <2>3, SolveDoneKeeps, BuildDoneKeeps, BuildFailsKeeps DEF Work
  <2>4. CASE Session
    BY <2>4, BridgeOpensKeeps, BridgeOpensGarbledKeeps, BridgeReadsKeeps, BridgeReadsLateKeeps,
       BridgeRestartsKeeps, LinkBreaksKeeps, OtherPlannerKeeps DEF Session
  <2>5. CASE UNCHANGED vars
    BY <2>5, SilentKeeps DEF VInv, Typed, vars, tab, net, work
  <2> QED
    BY <2>1, <2>2, <2>3, <2>4, <2>5 DEF Next
<1> QED
  BY <1>1, InitGood, PTL DEF Spec

(* No race of a timer or a socket event with a switch leaves the controller *)
(* and the reducer at odds.                                                 *)
THEOREM ViewerSocketAgrees == Spec => []SocketAgrees
<1>1. VInv => SocketAgrees
  BY DEF VInv
<1> QED
  BY <1>1, ViewerInvariant, PTL

(* Nothing is said to a bridge that has not greeted, or speaks otherwise.   *)
THEOREM ViewerGreetedFirst == Spec => []GreetedFirst
<1>1. VInv => GreetedFirst
  BY DEF VInv
<1> QED
  BY <1>1, ViewerInvariant, PTL

(* A restore finds an empty bridge, unless others got there first.          *)
THEOREM ViewerRestoreFillsEmpty == Spec => []RestoreFillsEmpty
<1>1. VInv => RestoreFillsEmpty
  <2> SUFFICES ASSUME VInv, NEW i \in DOMAIN wire, wire[i].restore, ~foreign
               PROVE  i = 1 /\ bridge.held = NoId /\ bridge.newest = NoId
    BY DEF RestoreFillsEmpty
  <2>1. i \in 1..Len(wire)
    BY DEF VInv, Typed
  <2> QED
    BY <2>1 DEF VInv, RestoreLeads
<1> QED
  BY <1>1, ViewerInvariant, PTL

-----------------------------------------------------------------------------
(* The latest plan. *)

(* Of the builds at most one is current: that of the latest solve's plan,   *)
(* while the connection is on and no other solve is pending.                *)
BuildsSound ==
    \A b \in builds :
        b.current => b.id = solver.latest /\ ~solver.pending /\ conn.phase # "off"

(* Unless its build is still to come, failed, or is outdated by an edit,    *)
(* the plan is that of the latest solve.                                    *)
PlanFollows ==
    /\ conn.phase # "off" /\ ~solver.pending /\ solver.latest # NoId /\ ~conn.buildError
    /\ \A b \in builds : ~b.current
    => conn.plan = solver.latest

(* What has nothing to do with the plan leaves it, and whether its build    *)
(* failed, alone.                                                           *)
SamePlan(c, d) ==
    d.plan = c.plan /\ d.buildError = c.buildError /\ (d.phase = "off" <=> c.phase = "off")

LEMMA PlanKept ==
    ASSUME NEW c \in Connection
    PROVE  /\ c.phase \in {"connecting", "open"} => SamePlan(c, Closed(c).conn)
           /\ c.phase = "connecting" => SamePlan(c, ConnectThrew(c).conn) /\ SamePlan(c, Opened(c).conn)
           /\ c.phase = "waiting" => SamePlan(c, Retry(c).conn)
           /\ c.phase = "off" => Enable(c).conn.plan = c.plan /\ Enable(c).conn.buildError = c.buildError
           /\ \A v \in BOOLEAN : SamePlan(c, SetAutoSend(c, v).conn)
           /\ \A fs \in Seq(Frame) : SamePlan(c, SendFailed(c, fs))
<1> QED
  BY DEF Closed, Lose, ConnectThrew, Opened, Retry, Enable, SetAutoSend, SendFailed, Ungreeted, Stay, To, SamePlan,
     Connection

LEMMA DeliverKeepsPlan ==
    ASSUME NEW c \in Connection, NEW id \in Ids, NEW want \in BOOLEAN
    PROVE  SamePlan(c, Deliver(c, id, want).conn)
  BY DEF Deliver, SendingSnapshot, Announcing, Sends, SamePlan, Connection

LEMMA GreetKeepsPlan ==
    ASSUME NEW c \in Connection, NEW m \in Message
    PROVE  SamePlan(c, Greet(c, m).conn)
<1> DEFINE seen == [c EXCEPT !.status = m, !.first = TRUE, !.unreadable = FALSE, !.mismatch = FALSE]
           after == IF Restores(c, m) THEN SendingSnapshot(seen, c.lastSent).conn ELSE seen
           said == Announcing(after, c.plan).conn
<1>1. seen \in Connection /\ SamePlan(c, seen)
  BY DEF Connection, Message, SamePlan
<1>2. Restores(c, m) => c.lastSent \in Ids
  BY DEF Restores, Connection, MaybeId
<1>3. after \in Connection
  BY <1>1, <1>2, SnapshotSent
<1>4. SamePlan(c, after)
  BY <1>1 DEF SendingSnapshot, Sends, SamePlan, Connection
<1> HIDE DEF seen
<1>5. said.plan = after.plan /\ said.buildError = after.buildError /\ said.phase = after.phase
      /\ said = [after EXCEPT !.lastFrame = "announce", !.paired = FALSE]
  BY <1>3 DEF Announcing, Sends, Connection
<1>6. SamePlan(c, [said EXCEPT !.paired = Restores(c, m)])
  BY <1>3, <1>4, <1>5 DEF SamePlan, Connection
<1>7. Greet(c, m).conn \in {after, [said EXCEPT !.paired = Restores(c, m)]}
  BY DEF Greet, Sends, seen
<1> QED
  BY <1>4, <1>6, <1>7

LEMMA TextKeepsPlan ==
    ASSUME NEW c \in Connection, NEW m \in Message
    PROVE  SamePlan(c, Text(c, m).conn)
<1>1. CASE c.phase = "open" /\ m.kind \in {"status", "foreign"} /\ ~c.first
  BY <1>1, GreetKeepsPlan DEF Text, FirstStatus, Stay, To, SamePlan, Connection
<1>2. CASE ~(c.phase = "open" /\ m.kind \in {"status", "foreign"} /\ ~c.first)
  BY <1>2 DEF Text, BridgeError, Stay, To, SamePlan, Connection, Message
<1> QED
  BY <1>1, <1>2

LEMMA TransmitKeepsPlan ==
    ASSUME NEW t, Transmit(t), t.conn \in Connection, t.frames \in Seq(Frame)
    PROVE  SamePlan(t.conn, conn')
<1>1. CASE conn' = t.conn
  BY <1>1 DEF SamePlan
<1>2. CASE conn' = SendFailed(t.conn, t.frames)
  BY <1>2, PlanKept
<1> QED
  BY <1>1, <1>2 DEF Transmit

(* An action that leaves the plan, the solver and the builds alone. *)
LEMMA PlanAside ==
    ASSUME BuildsSound, PlanFollows, SamePlan(conn, conn'), UNCHANGED <<solver, builds>>
    PROVE  BuildsSound' /\ PlanFollows'
  BY DEF BuildsSound, PlanFollows, SamePlan

(* A connection that is on or goes on, and builds what was solved last.     *)
LEMMA PlanRebuilt ==
    ASSUME builds \subseteq Build, Rebuild(solver'), conn'.phase # "off"
    PROVE  BuildsSound' /\ PlanFollows'
<1>1. \A b \in Outdated(builds) : ~b.current
  BY DEF Outdated, Build
<1>2. CASE solver'.pending \/ solver'.latest = NoId
  BY <1>1, <1>2 DEF Rebuild, BuildsSound, PlanFollows
<1>3. CASE ~(solver'.pending \/ solver'.latest = NoId)
  <2> DEFINE b == [id |-> solver'.latest, current |-> TRUE]
  <2>1. builds' = Outdated(builds) \cup {b} /\ b.current /\ b.id = solver'.latest
    BY <1>3 DEF Rebuild
  <2> HIDE DEF b
  <2> QED
    BY <1>1, <1>3, <2>1 DEF BuildsSound, PlanFollows
<1> QED
  BY <1>2, <1>3

(* A connection that is or goes off, or whose plan is being solved again.   *)
LEMMA PlanOutdated ==
    ASSUME builds \subseteq Build, builds' = Outdated(builds), conn'.phase = "off" \/ solver'.pending
    PROVE  BuildsSound' /\ PlanFollows'
<1>1. \A b \in builds' : ~b.current
  BY DEF Outdated, Build
<1> QED
  BY <1>1 DEF BuildsSound, PlanFollows

LEMMA PlayerKeepsPlan == ASSUME VInv, BuildsSound, PlanFollows, Player PROVE BuildsSound' /\ PlanFollows'
<1>1. conn \in Connection /\ builds \subseteq Build
  BY DEF VInv, Typed
<1>2. CASE TurnOn
  <2>1. conn'.phase # "off"
    BY <1>1, <1>2, PhaseMoved, Connected DEF TurnOn, VInv, Typed
  <2>2. Rebuild(solver')
    BY <1>2 DEF TurnOn
  <2> QED
    BY <1>1, <2>1, <2>2, PlanRebuilt
<1>3. CASE TurnOff
  BY <1>1, <1>3, PhaseMoved, PlanOutdated DEF TurnOff
<1>4. CASE ChangeAddress
  <2>1. LET t == Enable(Disable(conn).conn) IN t.conn \in Connection /\ t.conn.phase = "connecting"
    BY <1>1, <1>4, PhaseMoved DEF ChangeAddress
  <2>2. conn'.phase # "off"
    BY <1>4, <2>1, Connected DEF ChangeAddress
  <2>3. Rebuild(solver')
    BY <1>4 DEF ChangeAddress
  <2> QED
    BY <1>1, <2>2, <2>3, PlanRebuilt
<1>5. CASE ChooseAutoSend
  <2>1. SamePlan(conn, conn')
    BY <1>1, <1>5 DEF ChooseAutoSend, SetAutoSend, Stay, To, SamePlan, Connection
  <2> QED
    BY <1>5, <2>1, PlanAside DEF ChooseAutoSend, work
<1>6. CASE Send
  <2>1. conn.plan \in Ids /\ PressSend(conn) = Deliver(conn, conn.plan, TRUE)
    BY <1>1, <1>6 DEF PressSend, Send, Sendable, Connection, MaybeId
  <2> DEFINE t == Deliver(conn, conn.plan, TRUE)
  <2>2. /\ t.conn \in Connection /\ SamePlan(conn, t.conn)
        /\ \E f \in Frame : t.frames = <<f>>
    BY <1>1, <2>1, Delivered, DeliverKeepsPlan
  <2>3. t.frames \in Seq(Frame)
    <3> HIDE DEF t
    <3> QED
      BY <2>2
  <2> HIDE DEF t
  <2>5. Transmit(t)
    BY <1>6, <2>1 DEF Send, t
  <2>4. SamePlan(conn, conn')
    BY <2>2, <2>3, <2>5, TransmitKeepsPlan DEF SamePlan
  <2> QED
    BY <1>6, <2>4, PlanAside DEF Send, work
<1>7. CASE Edit
  BY <1>7, PlanOutdated DEF Edit, VInv, Typed
<1> QED
  BY <1>2, <1>3, <1>4, <1>5, <1>6, <1>7 DEF Player

LEMMA SocketKeepsPlan == ASSUME VInv, BuildsSound, PlanFollows, Socket PROVE BuildsSound' /\ PlanFollows'
<1>1. conn \in Connection /\ builds \subseteq Build
  BY DEF VInv, Typed
<1>2. UNCHANGED <<solver, builds>>
  BY DEF Socket, SocketOpens, SocketFails, SocketCloses, HearClosed, RetryFires, HearMessage, work
<1> SUFFICES SamePlan(conn, conn')
  BY <1>2, PlanAside
<1>3. CASE SocketOpens
  BY <1>1, <1>3, PlanKept DEF SocketOpens, VInv, SocketAgrees, Connection
<1>4. CASE SocketFails \/ HearClosed
  BY <1>1, <1>4, PlanKept DEF SocketFails, HearClosed, VInv, SocketAgrees, Connection
<1>5. CASE SocketCloses
  BY <1>5 DEF SocketCloses, SamePlan
<1>6. CASE RetryFires
  <2>1. conn.phase = "waiting"
    BY <1>1, <1>6 DEF RetryFires, VInv, SocketAgrees, Connection
  <2> DEFINE t == Retry(conn)
  <2>2. SamePlan(conn, t.conn) /\ t.conn \in Connection /\ t.conn.phase = "connecting"
    BY <1>1, <2>1, PlanKept, PhaseMoved
  <2>3. Connect(t)
    BY <1>6 DEF RetryFires
  <2> HIDE DEF t
  <2>4. conn' = t.conn \/ conn' = ConnectThrew(t.conn).conn
    BY <2>3 DEF Connect
  <2>5. SamePlan(t.conn, ConnectThrew(t.conn).conn)
    BY <2>2, PlanKept
  <2>6. SamePlan(conn, conn')
    BY <2>2, <2>4, <2>5 DEF SamePlan
  <2> QED
    BY <2>6
<1>7. CASE HearMessage
  <2> DEFINE t == Text(conn, Head(inbox))
  <2>1. Head(inbox) \in Message /\ Transmit(t)
    BY <1>7 DEF HearMessage, VInv, Typed
  <2>2. t.conn \in Connection /\ t.frames \in Seq(Frame) /\ SamePlan(conn, t.conn)
    BY <1>1, <2>1, TextHeard, TextKeepsPlan
  <2> HIDE DEF t
  <2> QED
    BY <2>1, <2>2, TransmitKeepsPlan DEF SamePlan
<1> QED
  BY <1>3, <1>4, <1>5, <1>6, <1>7 DEF Socket

LEMMA WorkKeepsPlan == ASSUME VInv, BuildsSound, PlanFollows, Work PROVE BuildsSound' /\ PlanFollows'
<1>1. conn \in Connection /\ builds \subseteq Build
  BY DEF VInv, Typed
<1>2. ASSUME NEW id \in Ids, SolveDone(id) PROVE BuildsSound' /\ PlanFollows'
  <2>1. conn' = conn
    BY <1>2 DEF SolveDone, tab
  <2>2. CASE conn.phase = "off"
    BY <1>1, <1>2, <2>1, <2>2, PlanOutdated DEF SolveDone
  <2>3. CASE conn.phase # "off"
    BY <1>1, <1>2, <2>1, <2>3, PlanRebuilt DEF SolveDone
  <2> QED
    BY <2>2, <2>3
<1>3. ASSUME NEW b \in builds, BuildDone(b) PROVE BuildsSound' /\ PlanFollows'
  <2>1. builds' = builds \ {b} /\ solver' = solver /\ b.id \in Ids
    BY <1>3 DEF BuildDone, VInv, Typed, Build
  <2>2. CASE ~b.current
    BY <1>3, <2>1, <2>2 DEF BuildDone, BuildsSound, PlanFollows
  <2>3. CASE b.current
    <3>1. b.id = solver.latest /\ conn.phase # "off"
      BY <2>3 DEF BuildsSound
    <3>2. conn'.plan = b.id /\ conn'.phase # "off"
      <4>1. CASE conn.plan = b.id
        <5> DEFINE t == BuildCleared(conn)
        <5>1. t.conn = [conn EXCEPT !.buildError = FALSE] /\ t.frames = <<>>
          BY DEF BuildCleared, Stay, To
        <5>2. Transmit(t)
          BY <1>3, <2>3, <4>1 DEF BuildDone
        <5> HIDE DEF t
        <5>5. t.conn \in Connection /\ t.conn.plan = conn.plan /\ t.conn.phase = conn.phase
          BY <1>1, <5>1 DEF Connection
        <5>4. t.frames \in Seq(Frame)
          BY <5>1
        <5>3. SamePlan(t.conn, conn')
          BY <5>2, <5>4, <5>5, TransmitKeepsPlan
        <5> QED
          BY <3>1, <4>1, <5>3, <5>5 DEF SamePlan
      <4>2. CASE conn.plan # b.id
        <5> DEFINE t == Solved(conn, b.id)
                   next == [conn EXCEPT !.plan = b.id, !.buildError = FALSE]
        <5>1. t.conn \in Connection /\ t.frames \in Seq(Frame)
          BY <1>1, <2>1, SolvedSaid
        <5>2. next \in Connection /\ next.plan = b.id /\ next.phase = conn.phase /\ next.auto \in BOOLEAN
          BY <1>1, <2>1 DEF Connection, MaybeId
        <5>3. t = Stay(next) \/ t = Deliver(next, b.id, conn.auto)
          BY <3>1 DEF Solved
        <5>4. conn.auto \in BOOLEAN
          BY <1>1 DEF Connection
        <5>5. Transmit(t)
          BY <1>3, <2>3, <4>2 DEF BuildDone
        <5> HIDE DEF t, next
        <5>6. SamePlan(next, t.conn)
          BY <2>1, <5>2, <5>3, <5>4, DeliverKeepsPlan DEF Stay, To, SamePlan
        <5>7. SamePlan(t.conn, conn')
          BY <5>1, <5>5, TransmitKeepsPlan
        <5> QED
          BY <3>1, <5>2, <5>6, <5>7 DEF SamePlan
      <4> QED
        BY <4>1, <4>2
    <3>3. BuildsSound'
      BY <2>1, <3>2 DEF BuildsSound
    <3>4. PlanFollows'
      BY <2>1, <3>1, <3>2 DEF PlanFollows
    <3> QED
      BY <3>3, <3>4
  <2>4. b.current \in BOOLEAN
    BY <1>3 DEF VInv, Typed, Build
  <2> QED
    BY <2>2, <2>3, <2>4
<1>4. ASSUME NEW b \in builds, BuildFails(b) PROVE BuildsSound' /\ PlanFollows'
  <2>1. builds' = builds \ {b} /\ solver' = solver
    BY <1>4 DEF BuildFails
  <2>2. CASE ~b.current
    BY <1>4, <2>1, <2>2 DEF BuildFails, BuildsSound, PlanFollows
  <2>3. CASE b.current
    <3>1. conn' = [conn EXCEPT !.buildError = TRUE]
      BY <1>4, <2>3 DEF BuildFails, BuildFailed, BuildsSound, Stay, To
    <3>2. conn'.phase = conn.phase /\ conn'.buildError
      BY <1>1, <3>1 DEF Connection
    <3> QED
      BY <2>1, <3>2 DEF BuildsSound, PlanFollows
  <2> QED
    BY <2>2, <2>3
<1> QED
  BY <1>2, <1>3, <1>4 DEF Work

LEMMA SessionKeepsPlan == ASSUME BuildsSound, PlanFollows, Session PROVE BuildsSound' /\ PlanFollows'
<1>1. UNCHANGED <<conn, solver, builds>>
  BY DEF Session, BridgeOpens, BridgeOpensGarbled, BridgeReads, BridgeReadsLate, BridgeRestarts, LinkBreaks,
     OtherPlanner, work, tab
<1> QED
  BY <1>1, PlanAside DEF SamePlan

(* Whatever builds of older plans, edits and switches of the connection are *)
(* under way, the plan is that of the latest solve or its build is current. *)
THEOREM ViewerPlanFollows == Spec => [](BuildsSound /\ PlanFollows)
<1>1. Init => BuildsSound /\ PlanFollows
  BY DEF Init, BuildsSound, PlanFollows, InitialConnection
<1>2. VInv /\ BuildsSound /\ PlanFollows /\ [Next]_vars => (BuildsSound /\ PlanFollows)'
  <2> SUFFICES ASSUME VInv, BuildsSound, PlanFollows, [Next]_vars PROVE BuildsSound' /\ PlanFollows'
    OBVIOUS
  <2>1. CASE UNCHANGED vars
    BY <2>1 DEF vars, tab, work, BuildsSound, PlanFollows
  <2> QED
    BY <2>1, PlayerKeepsPlan, SocketKeepsPlan, WorkKeepsPlan, SessionKeepsPlan DEF Next
<1> QED
  BY <1>1, <1>2, ViewerInvariant, PTL DEF Spec

(* When no build is under way the plan is that of the latest solve: no      *)
(* stale build ever replaces it, and no solve is missed.                    *)
THEOREM ViewerPlanIsLatest == Spec => []PlanIsLatest
<1>1. PlanFollows => PlanIsLatest
  BY DEF PlanFollows, PlanIsLatest
<1> QED
  BY <1>1, ViewerPlanFollows, PTL

-----------------------------------------------------------------------------
(* What the player is shown of the bridge. *)

IsStatus(m) == m.kind \in {"status", "foreign"}

(* The last status the bridge has said, on its way or heard, is what the    *)
(* bridge is; and a connection that has heard one has forgotten an          *)
(* unreadable one, and knows whether the versions agree.                    *)
LastOnItsWay ==
    \A i \in 1..Len(inbox) :
        IsStatus(inbox[i]) /\ (\A j \in i + 1..Len(inbox) : ~IsStatus(inbox[j]))
            => inbox[i] = StatusOf(bridge)
LastHeard ==
    conn.first /\ (\A i \in 1..Len(inbox) : ~IsStatus(inbox[i]))
        => conn.status = StatusOf(bridge)
UnreadableFirst ==
    \A i \in 1..Len(inbox) : inbox[i].kind = "unreadable" => i = 1 /\ ~conn.first
VersionHeard ==
    conn.first => ~conn.unreadable /\ (conn.mismatch => bridge.speaks = "other")
LastStatusTrue ==
    peer = "live" => LastOnItsWay /\ LastHeard /\ UnreadableFirst /\ VersionHeard

(* What has nothing to do with what was heard leaves it alone. *)
SameStatus(c, d) ==
    /\ d.first = c.first /\ d.status = c.status
    /\ d.unreadable = c.unreadable /\ d.mismatch = c.mismatch

LEMMA StatusAside ==
    ASSUME LastStatusTrue, SameStatus(conn, conn'), UNCHANGED <<peer, inbox, bridge>>
    PROVE  LastStatusTrue'
  BY DEF LastStatusTrue, LastOnItsWay, LastHeard, UnreadableFirst, VersionHeard, SameStatus, IsStatus, StatusOf

LEMMA DeliverKeepsStatus ==
    ASSUME NEW c \in Connection, NEW id \in Ids, NEW want \in BOOLEAN
    PROVE  SameStatus(c, Deliver(c, id, want).conn)
  BY DEF Deliver, SendingSnapshot, Announcing, Sends, SameStatus, Connection

LEMMA FailureKeepsStatus ==
    ASSUME NEW c \in Connection, NEW fs
    PROVE  SameStatus(c, SendFailed(c, fs))
  BY DEF SendFailed, SameStatus, Connection

LEMMA TransmitKeepsStatus ==
    ASSUME NEW t, Transmit(t), t.conn \in Connection
    PROVE  SameStatus(t.conn, conn')
<1>1. CASE conn' = t.conn
  BY <1>1 DEF SameStatus
<1>2. CASE conn' = SendFailed(t.conn, t.frames)
  BY <1>2, FailureKeepsStatus
<1> QED
  BY <1>1, <1>2 DEF Transmit

LEMMA SolvedKeepsStatus ==
    ASSUME NEW c \in Connection, NEW id \in Ids
    PROVE  SameStatus(c, Solved(c, id).conn)
<1> DEFINE next == [c EXCEPT !.plan = id, !.buildError = FALSE]
<1>1. next \in Connection /\ SameStatus(c, next) /\ c.auto \in BOOLEAN
  BY DEF Connection, MaybeId, SameStatus
<1>2. Solved(c, id) \in {Stay(c), Stay(next), Deliver(next, id, c.auto)}
  BY DEF Solved
<1> HIDE DEF next
<1>3. SameStatus(next, Deliver(next, id, c.auto).conn)
  BY <1>1, DeliverKeepsStatus
<1> QED
  BY <1>1, <1>2, <1>3 DEF SameStatus, Stay, To

(* What a greeting concludes. *)
LEMMA GreetHears ==
    ASSUME NEW c \in Connection, NEW m \in Message
    PROVE  LET d == Greet(c, m).conn
           IN  d.first /\ d.status = m /\ ~d.unreadable /\ ~d.mismatch
<1> DEFINE seen == [c EXCEPT !.status = m, !.first = TRUE, !.unreadable = FALSE, !.mismatch = FALSE]
           after == IF Restores(c, m) THEN SendingSnapshot(seen, c.lastSent).conn ELSE seen
           said == Announcing(after, c.plan).conn
           Heard(d) == d.first /\ d.status = m /\ ~d.unreadable /\ ~d.mismatch
<1>1. seen \in Connection /\ Heard(seen)
  BY DEF Connection, Message
<1>2. Restores(c, m) => c.lastSent \in Ids
  BY DEF Restores, Connection, MaybeId
<1>3. after \in Connection
  BY <1>1, <1>2, SnapshotSent
<1>4. Heard(after)
  BY <1>1 DEF SendingSnapshot, Sends, Connection
<1> HIDE DEF seen
<1>5. said = [after EXCEPT !.lastFrame = "announce", !.paired = FALSE]
  BY DEF Announcing, Sends
<1>6. Heard([said EXCEPT !.paired = Restores(c, m)])
  BY <1>3, <1>4, <1>5 DEF Connection
<1>7. Greet(c, m).conn \in {after, [said EXCEPT !.paired = Restores(c, m)]}
  BY DEF Greet, Sends, seen
<1> QED
  BY <1>4, <1>6, <1>7

(* A status is remembered, and tells of the version if it is the first; an  *)
(* error or an unreadable status changes nothing of it but that.            *)
LEMMA TextHears ==
    ASSUME NEW c \in Connection, NEW m \in Message, c.phase = "open"
    PROVE  LET d == Text(c, m).conn
           IN  /\ IsStatus(m) => /\ d.first /\ d.status = m /\ ~d.unreadable
                                 /\ IF c.first THEN d.mismatch = c.mismatch
                                               ELSE d.mismatch <=> m.kind = "foreign"
               /\ ~IsStatus(m) => /\ d.first = c.first /\ d.status = c.status /\ d.mismatch = c.mismatch
                                  /\ d.unreadable <=> c.unreadable \/ m.kind = "unreadable"
               /\ c.first => d.error = (c.error \/ m.kind = "error")
<1>1. CASE IsStatus(m) /\ ~c.first
  <2>1. CASE m.kind = "status"
    <3>1. Text(c, m) = Greet(c, m)
      BY <1>1, <2>1 DEF Text, FirstStatus, IsStatus
    <3> QED
      BY <1>1, <2>1, <3>1, GreetHears
  <2>2. CASE m.kind = "foreign"
    <3>1. Text(c, m).conn = [c EXCEPT !.status = m, !.first = TRUE, !.unreadable = FALSE, !.mismatch = TRUE]
      BY <1>1, <2>2 DEF Text, FirstStatus, IsStatus, Stay, To
    <3> QED
      BY <1>1, <2>2, <3>1 DEF Connection
  <2> QED
    BY <1>1, <2>1, <2>2 DEF IsStatus
<1>2. CASE IsStatus(m) /\ c.first
  <2>1. Text(c, m).conn = [c EXCEPT !.status = m, !.unreadable = FALSE]
    BY <1>2 DEF Text, IsStatus, Stay, To
  <2> QED
    BY <1>2, <2>1 DEF Connection, IsStatus
<1>3. CASE m.kind = "unreadable"
  <2>1. Text(c, m).conn = [c EXCEPT !.unreadable = TRUE]
    BY <1>3 DEF Text, Stay, To
  <2> QED
    BY <1>3, <2>1 DEF Connection, IsStatus
<1>4. CASE m.kind = "error"
  <2>1. Text(c, m).conn = BridgeError(c).conn
    BY <1>4 DEF Text
  <2>2. BridgeError(c).conn = [c EXCEPT !.error = TRUE,
            !.lastSent = IF c.lastFrame = "snapshot" \/ c.paired THEN NoId ELSE @]
    BY DEF BridgeError, Stay, To
  <2> DEFINE x == IF c.lastFrame = "snapshot" \/ c.paired THEN NoId ELSE c.lastSent
  <2>3. Text(c, m).conn = [c EXCEPT !.error = TRUE, !.lastSent = x]
    BY <2>1, <2>2
  <2> HIDE DEF x
  <2> QED
    BY <1>4, <2>3 DEF Connection, IsStatus
<1> QED
  BY <1>1, <1>2, <1>3, <1>4 DEF Message, IsStatus

LEMMA HearMessageShows == ASSUME VInv, LastStatusTrue, HearMessage PROVE LastStatusTrue'
<1> SUFFICES ASSUME peer = "live" PROVE (LastOnItsWay /\ LastHeard /\ UnreadableFirst /\ VersionHeard)'
  BY DEF HearMessage, LastStatusTrue
<1> DEFINE m == Head(inbox)
           t == Text(conn, m)
<1>1. /\ sock = "open" /\ inbox # <<>> /\ Transmit(t) /\ inbox' = Tail(inbox) /\ bridge' = bridge
  BY DEF HearMessage
<1>2. /\ m \in Message /\ m = inbox[1] /\ 1 \in 1..Len(inbox) /\ inbox' \in Seq(Message)
      /\ Len(inbox') = Len(inbox) - 1 /\ Len(inbox) \in Nat
      /\ \A i \in 1..Len(inbox') : i + 1 \in 1..Len(inbox) /\ inbox'[i] = inbox[i + 1]
  BY <1>1 DEF VInv, Typed
<1>3. conn \in Connection /\ conn.phase = "open"
  BY <1>1 DEF VInv, Typed, SocketAgrees, Connection
<1>4. /\ t.conn \in Connection
      /\ IsStatus(m) => /\ t.conn.first /\ t.conn.status = m /\ ~t.conn.unreadable
                        /\ IF conn.first THEN t.conn.mismatch = conn.mismatch
                                         ELSE t.conn.mismatch <=> m.kind = "foreign"
      /\ ~IsStatus(m) => /\ t.conn.first = conn.first /\ t.conn.status = conn.status
                         /\ t.conn.mismatch = conn.mismatch
                         /\ t.conn.unreadable <=> conn.unreadable \/ m.kind = "unreadable"
  BY <1>2, <1>3, TextHears, TextHeard
<1> HIDE DEF t, m
<1>5. SameStatus(t.conn, conn')
  BY <1>1, <1>4, TransmitKeepsStatus
<1>6. StatusOf(bridge)' = StatusOf(bridge)
  BY <1>1 DEF StatusOf
<1>7. LastOnItsWay /\ LastHeard /\ UnreadableFirst /\ VersionHeard
  BY DEF LastStatusTrue
<1>8. LastOnItsWay'
  <2> SUFFICES ASSUME NEW i \in 1..Len(inbox'), IsStatus(inbox'[i]),
                      \A j \in i + 1..Len(inbox') : ~IsStatus(inbox'[j])
               PROVE  inbox'[i] = StatusOf(bridge)
    BY <1>6 DEF LastOnItsWay, IsStatus
  <2>1. ASSUME NEW j \in (i + 1) + 1..Len(inbox) PROVE ~IsStatus(inbox[j])
    <3>1. j - 1 \in i + 1..Len(inbox') /\ j - 1 \in 1..Len(inbox') /\ (j - 1) + 1 = j
      BY <1>2
    <3>2. inbox'[j - 1] = inbox[(j - 1) + 1]
      BY <1>2, <3>1
    <3> QED
      BY <3>1, <3>2
  <2>2. i + 1 \in 1..Len(inbox) /\ inbox'[i] = inbox[i + 1]
    BY <1>2
  <2> QED
    BY <1>7, <2>1, <2>2 DEF LastOnItsWay
<1>9. LastHeard'
  <2> SUFFICES ASSUME conn'.first, \A i \in 1..Len(inbox') : ~IsStatus(inbox'[i])
               PROVE  conn'.status = StatusOf(bridge)
    BY <1>6 DEF LastHeard, IsStatus
  <2>1. ASSUME NEW j \in 1 + 1..Len(inbox) PROVE ~IsStatus(inbox[j])
    <3>1. j - 1 \in 1..Len(inbox') /\ (j - 1) + 1 = j
      BY <1>2
    <3>2. inbox'[j - 1] = inbox[(j - 1) + 1]
      BY <1>2, <3>1
    <3> QED
      BY <3>1, <3>2
  <2>2. CASE IsStatus(m)
    <3>1. m = StatusOf(bridge)
      BY <1>2, <1>7, <2>1, <2>2 DEF LastOnItsWay
    <3> QED
      BY <1>4, <1>5, <2>2, <3>1 DEF SameStatus
  <2>3. CASE ~IsStatus(m)
    <3>1. \A i \in 1..Len(inbox) : ~IsStatus(inbox[i])
      <4> SUFFICES ASSUME NEW i \in 1..Len(inbox) PROVE ~IsStatus(inbox[i])
        OBVIOUS
      <4>1. i = 1 \/ i \in 1 + 1..Len(inbox)
        BY <1>2
      <4> QED
        BY <1>2, <2>1, <2>3, <4>1
    <3> QED
      BY <1>4, <1>5, <1>7, <2>3, <3>1 DEF SameStatus, LastHeard
  <2> QED
    BY <2>2, <2>3
<1>10. UnreadableFirst'
  BY <1>2, <1>7 DEF UnreadableFirst
<1>11. VersionHeard'
  <2>1. m.kind = "foreign" => bridge.speaks = "other"
    BY <1>2 DEF VInv, VersionKnown, Speaks
  <2>2. m.kind = "unreadable" => ~conn.first
    BY <1>2, <1>7 DEF UnreadableFirst
  <2> QED
    BY <1>1, <1>4, <1>5, <1>7, <2>1, <2>2 DEF VersionHeard, SameStatus
<1> QED
  BY <1>8, <1>9, <1>10, <1>11

(* A status that says what the bridge has become, or an error.              *)
LEMMA ToldShows ==
    ASSUME VInv, LastStatusTrue, conn' = conn, peer = "live",
           bridge' \in [newest : MaybeId, held : MaybeId, speaks : {"ours", "other"}],
           bridge'.speaks = bridge.speaks,
           NEW m \in Message, inbox' = inbox \o <<m>>,
           m = StatusOf(bridge') \/ (m.kind = "error" /\ bridge' = bridge)
    PROVE  LastStatusTrue'
<1>1. /\ inbox' \in Seq(Message) /\ Len(inbox') = Len(inbox) + 1 /\ Len(inbox) \in Nat
      /\ inbox'[Len(inbox) + 1] = m
      /\ \A i \in 1..Len(inbox) : inbox'[i] = inbox[i]
  BY DEF VInv, Typed
<1>2. LastOnItsWay /\ LastHeard /\ UnreadableFirst /\ VersionHeard
  BY DEF LastStatusTrue
<1>3. UnreadableFirst' /\ VersionHeard'
  <2>1. m.kind # "unreadable"
    BY MessagesTyped
  <2>2. UnreadableFirst'
    BY <1>1, <1>2, <2>1 DEF UnreadableFirst
  <2> QED
    BY <1>2, <2>2 DEF VersionHeard
<1>4. CASE m = StatusOf(bridge')
  <2>1. IsStatus(m)
    BY <1>4, MessagesTyped DEF IsStatus
  <2>2. LastOnItsWay'
    <3> SUFFICES ASSUME NEW i \in 1..Len(inbox'), \A j \in i + 1..Len(inbox') : ~IsStatus(inbox'[j])
                 PROVE  inbox'[i] = StatusOf(bridge')
      BY DEF LastOnItsWay, IsStatus, StatusOf
    <3>1. i # Len(inbox) + 1 => Len(inbox) + 1 \in i + 1..Len(inbox')
      BY <1>1
    <3> QED
      BY <1>1, <1>4, <2>1, <3>1
  <2>3. LastHeard'
    <3>1. Len(inbox) + 1 \in 1..Len(inbox')
      BY <1>1
    <3>2. ~(\A i \in 1..Len(inbox') : ~IsStatus(inbox'[i]))
      BY <1>1, <2>1, <3>1
    <3> QED
      BY <3>2 DEF LastHeard, IsStatus
  <2> QED
    BY <1>3, <2>2, <2>3 DEF LastStatusTrue
<1>5. CASE m.kind = "error" /\ bridge' = bridge
  <2>1. ~IsStatus(m) /\ StatusOf(bridge)' = StatusOf(bridge)
    BY <1>5 DEF IsStatus, StatusOf
  <2>2. LastOnItsWay'
    <3> SUFFICES ASSUME NEW i \in 1..Len(inbox'), IsStatus(inbox'[i]),
                        \A j \in i + 1..Len(inbox') : ~IsStatus(inbox'[j])
                 PROVE  inbox'[i] = StatusOf(bridge)
      BY <2>1 DEF LastOnItsWay, IsStatus
    <3>1. i \in 1..Len(inbox)
      BY <1>1, <2>1
    <3>2. \A j \in i + 1..Len(inbox) : j \in i + 1..Len(inbox') /\ j \in 1..Len(inbox)
      BY <1>1, <3>1
    <3>3. \A j \in i + 1..Len(inbox) : ~IsStatus(inbox[j])
      BY <1>1, <3>2
    <3> QED
      BY <1>1, <1>2, <3>1, <3>3 DEF LastOnItsWay
  <2>3. LastHeard'
    <3>1. \A i \in 1..Len(inbox) : i \in 1..Len(inbox')
      BY <1>1
    <3> QED
      BY <1>1, <1>2, <2>1, <3>1 DEF LastHeard, IsStatus
  <2> QED
    BY <1>3, <2>2, <2>3 DEF LastStatusTrue
<1> QED
  BY <1>4, <1>5

LEMMA PublishShows ==
    ASSUME VInv, LastStatusTrue, conn' = conn, peer' = "live", Publish,
           bridge' \in [newest : MaybeId, held : MaybeId, speaks : {"ours", "other"}],
           bridge'.speaks = bridge.speaks
    PROVE  LastStatusTrue'
<1>1. CASE peer = "live" /\ StatusOf(bridge') # StatusOf(bridge)
  <2>1. inbox' = inbox \o <<StatusOf(bridge')>>
    BY <1>1 DEF Publish, Queue
  <2>2. StatusOf(bridge') \in Message
    BY MessagesTyped
  <2> QED
    BY <1>1, <2>1, <2>2, ToldShows
<1>2. CASE ~(peer = "live" /\ StatusOf(bridge') # StatusOf(bridge))
  <2>1. UNCHANGED <<inbox, peer>> /\ StatusOf(bridge') = StatusOf(bridge)
    BY <1>2 DEF Publish
  <2>2. StatusOf(bridge)' = StatusOf(bridge)
    BY <2>1 DEF StatusOf
  <2>3. LastOnItsWay /\ LastHeard /\ UnreadableFirst /\ VersionHeard
    BY <2>1 DEF LastStatusTrue
  <2> QED
    BY <2>1, <2>2, <2>3 DEF LastStatusTrue, LastOnItsWay, LastHeard, UnreadableFirst, VersionHeard, IsStatus
<1> QED
  BY <1>1, <1>2

LEMMA SessionShows == ASSUME VInv, LastStatusTrue, Session PROVE LastStatusTrue'
<1>1. conn' = conn
  BY DEF Session, BridgeOpens, BridgeOpensGarbled, BridgeReads, BridgeReadsLate, BridgeRestarts, LinkBreaks,
     OtherPlanner, tab
<1>2. ASSUME peer = "accepted", inbox' = <<StatusOf(bridge)>> \/ inbox' = <<Unreadable>>, bridge' = bridge
      PROVE  LastStatusTrue'
  <2>1. ~conn'.first
    BY <1>1, <1>2 DEF VInv, LinkSound
  <2>2. Len(inbox') = 1 /\ (inbox'[1] = StatusOf(bridge) \/ inbox'[1] = Unreadable)
    BY <1>2
  <2>3. StatusOf(bridge)' = StatusOf(bridge) /\ ~IsStatus(Unreadable)
    BY <1>2 DEF StatusOf, IsStatus, Unreadable
  <2> QED
    BY <2>1, <2>2, <2>3
       DEF LastStatusTrue, LastOnItsWay, LastHeard, UnreadableFirst, VersionHeard, IsStatus
<1>3. CASE BridgeReads
  <2> SUFFICES ASSUME peer' = "live" PROVE LastStatusTrue'
    BY DEF LastStatusTrue
  <2>1. peer = "live" /\ Head(wire) \in Frame
    BY <1>3 DEF BridgeReads, VInv, Typed
  <2>2. CASE Refuses(Head(wire))
    <3>1. inbox' = inbox \o <<ErrorMessage>> /\ bridge' = bridge
      BY <1>3, <2>2 DEF BridgeReads, Queue
    <3>2. ErrorMessage \in Message /\ ErrorMessage.kind = "error"
      BY MessagesTyped DEF VInv, Typed
    <3> QED
      BY <1>1, <2>1, <3>1, <3>2, ToldShows DEF VInv, Typed
  <2>3. CASE ~Refuses(Head(wire))
    BY <1>1, <1>3, <2>1, <2>3, FrameHandled, PublishShows DEF BridgeReads
  <2> QED
    BY <2>2, <2>3
<1>4. CASE BridgeReadsLate
  <2> SUFFICES ASSUME peer' = "live" PROVE LastStatusTrue'
    BY DEF LastStatusTrue
  <2>1. Head(left) \in Frame
    BY <1>4 DEF BridgeReadsLate, VInv, Typed
  <2>2. CASE Refuses(Head(left))
    BY <1>1, <1>4, <2>2, StatusAside DEF BridgeReadsLate, SameStatus
  <2>3. CASE ~Refuses(Head(left))
    BY <1>1, <1>4, <2>1, <2>3, FrameHandled, PublishShows DEF BridgeReadsLate
  <2> QED
    BY <2>2, <2>3
<1>5. ASSUME NEW f \in OtherFrames, OtherPlanner(f) PROVE LastStatusTrue'
  <2> SUFFICES ASSUME peer' = "live" PROVE LastStatusTrue'
    BY DEF LastStatusTrue
  <2>1. f \in Frame
    BY OtherFramesTyped
  <2> QED
    BY <1>1, <1>5, <2>1, FrameHandled, PublishShows DEF OtherPlanner
<1>6. CASE BridgeRestarts \/ LinkBreaks
  BY <1>6 DEF BridgeRestarts, LinkBreaks, LastStatusTrue
<1> QED
  BY <1>2, <1>3, <1>4, <1>5, <1>6 DEF Session, BridgeOpens, BridgeOpensGarbled

LEMMA TabShows ==
    ASSUME VInv, LastStatusTrue, Player \/ Socket \/ Work PROVE LastStatusTrue'
<1>1. conn \in Connection /\ builds \subseteq Build
  BY DEF VInv, Typed
<1>2. CASE TurnOn \/ TurnOff \/ ChangeAddress
  <2>1. peer' # "live"
    BY <1>2 DEF TurnOn, TurnOff, ChangeAddress, net, VInv, SocketAgrees, LinkSound
  <2> QED
    BY <2>1 DEF LastStatusTrue
<1>3. CASE SocketOpens \/ SocketFails \/ SocketCloses \/ HearClosed \/ RetryFires
  <2>1. peer' # "live"
    BY <1>1, <1>3 DEF SocketOpens, SocketFails, SocketCloses, HearClosed, RetryFires, net, VInv, SocketAgrees, LinkSound,
       Connection
  <2> QED
    BY <2>1 DEF LastStatusTrue
<1>4. CASE ChooseAutoSend
  <2>1. SameStatus(conn, conn')
    BY <1>1, <1>4 DEF ChooseAutoSend, SetAutoSend, Stay, To, SameStatus, Connection
  <2> QED
    BY <1>4, <2>1, StatusAside DEF ChooseAutoSend, net
<1>5. CASE Send
  <2>1. conn.plan \in Ids /\ PressSend(conn) = Deliver(conn, conn.plan, TRUE)
    BY <1>1, <1>5 DEF PressSend, Send, Sendable, Connection, MaybeId
  <2> DEFINE t == Deliver(conn, conn.plan, TRUE)
  <2>2. t.conn \in Connection /\ SameStatus(conn, t.conn)
    BY <1>1, <2>1, Delivered, DeliverKeepsStatus
  <2> HIDE DEF t
  <2>3. Transmit(t) /\ UNCHANGED <<peer, inbox, bridge>>
    BY <1>5, <2>1 DEF Send, t
  <2>4. SameStatus(conn, conn')
    BY <2>2, <2>3, TransmitKeepsStatus DEF SameStatus
  <2> QED
    BY <2>3, <2>4, StatusAside
<1>6. CASE Edit \/ \E id \in Ids : SolveDone(id)
  BY <1>6, StatusAside DEF Edit, SolveDone, tab, net, SameStatus
<1>7. ASSUME NEW b \in builds, BuildDone(b) PROVE LastStatusTrue'
  <2>1. UNCHANGED <<peer, inbox, bridge>> /\ b.id \in Ids
    BY <1>1, <1>7 DEF BuildDone, Build
  <2>2. SameStatus(conn, conn')
    <3>1. CASE conn' = conn
      BY <3>1 DEF SameStatus
    <3>2. CASE Transmit(BuildCleared(conn))
      <4> DEFINE t == BuildCleared(conn)
      <4>1. t.conn = [conn EXCEPT !.buildError = FALSE]
        BY DEF BuildCleared, Stay, To
      <4> HIDE DEF t
      <4>2. t.conn \in Connection /\ SameStatus(conn, t.conn)
        BY <1>1, <4>1 DEF Connection, SameStatus
      <4>3. Transmit(t)
        BY <3>2 DEF t
      <4> QED
        BY <4>2, <4>3, TransmitKeepsStatus DEF SameStatus
    <3>3. CASE Transmit(Solved(conn, b.id))
      <4> DEFINE t == Solved(conn, b.id)
      <4>1. t.conn \in Connection /\ SameStatus(conn, t.conn)
        BY <1>1, <2>1, SolvedSaid, SolvedKeepsStatus
      <4> HIDE DEF t
      <4>2. Transmit(t)
        BY <3>3 DEF t
      <4> QED
        BY <4>1, <4>2, TransmitKeepsStatus DEF SameStatus
    <3> QED
      BY <1>7, <3>1, <3>2, <3>3 DEF BuildDone
  <2> QED
    BY <2>1, <2>2, StatusAside
<1>8. ASSUME NEW b \in builds, BuildFails(b) PROVE LastStatusTrue'
  <2>1. conn' = conn \/ conn' = [conn EXCEPT !.buildError = TRUE]
    BY <1>8 DEF BuildFails, BuildFailed, Stay, To
  <2>2. SameStatus(conn, conn')
    BY <1>1, <2>1 DEF SameStatus, Connection
  <2> QED
    BY <1>8, <2>2, StatusAside DEF BuildFails, net
<1> QED
  BY <1>2, <1>3, <1>4, <1>5, <1>6, <1>7, <1>8, HearMessageShows DEF Player, Socket, Work

(* The last status on its way to a tab, or the one it heard when none is,   *)
(* is what the bridge would say now: no change of the bridge goes untold.   *)
THEOREM ViewerLastStatus == Spec => []LastStatusTrue
<1>1. Init => LastStatusTrue
  BY DEF Init, LastStatusTrue
<1>2. VInv /\ LastStatusTrue /\ [Next]_vars => LastStatusTrue'
  <2> SUFFICES ASSUME VInv, LastStatusTrue, [Next]_vars PROVE LastStatusTrue'
    OBVIOUS
  <2>1. CASE UNCHANGED vars
    BY <2>1, StatusAside DEF vars, tab, net, SameStatus
  <2> QED
    BY <2>1, TabShows, SessionShows DEF Next
<1> QED
  BY <1>1, <1>2, ViewerInvariant, PTL DEF Spec

(* With nothing in flight the badge and the status are the bridge's.        *)
THEOREM ViewerShownIsTrue == Spec => []ShownIsTrue
<1>1. VInv /\ LastStatusTrue => ShownIsTrue
  <2> SUFFICES ASSUME VInv, LastStatusTrue, Settled, conn.first
               PROVE  /\ conn.status = StatusOf(bridge)
                      /\ Badge(conn) = IF bridge.speaks = "ours" THEN "bridge" ELSE "protocol-mismatch"
    BY DEF ShownIsTrue
  <2>1. conn \in Connection /\ conn.phase = "open"
    BY DEF VInv, Typed, Settled, SocketAgrees, Connection
  <2>2. conn.status = StatusOf(bridge) /\ ~conn.unreadable /\ (conn.mismatch => bridge.speaks = "other")
    BY DEF LastStatusTrue, LastHeard, VersionHeard, Settled
  <2>3. ~conn.mismatch => bridge.speaks = "ours"
    BY DEF VInv, VersionKnown, Settled
  <2>4. conn.status # NoStatus /\ bridge.speaks \in {"ours", "other"}
    BY <2>2, MessagesTyped DEF VInv, Typed, NoStatus
  <2> QED
    BY <2>1, <2>2, <2>3, <2>4 DEF Badge, Connection
<1> QED
  BY <1>1, ViewerInvariant, ViewerLastStatus, PTL

-----------------------------------------------------------------------------
(* What the bridge is told of the plan. *)

(* To a bridge that nobody else talks to the last thing said is the plan:   *)
(* it is on its way, or the bridge has it, or the error that refused it is  *)
(* on its way or shown.                                                     *)
ErrorComes == \E i \in 1..Len(inbox) : inbox[i].kind = "error"
PlanSaid ==
    peer = "live" /\ ~foreign /\ conn.first /\ ~conn.mismatch /\ conn.plan # NoId =>
        IF wire # <<>> THEN wire[Len(wire)].id = conn.plan
        ELSE bridge.newest = conn.plan \/ conn.error \/ ErrorComes

(* Of the connection, what PlanSaid is about. *)
SameSaid(c, d) ==
    d.first = c.first /\ d.mismatch = c.mismatch /\ d.plan = c.plan /\ d.error = c.error

LEMMA SaidAside ==
    ASSUME PlanSaid, SameSaid(conn, conn'), UNCHANGED <<peer, inbox, wire, bridge, foreign>>
    PROVE  PlanSaid'
  BY DEF PlanSaid, SameSaid, ErrorComes

LEMMA DeliverSays ==
    ASSUME NEW c \in Connection, NEW id \in Ids, NEW want \in BOOLEAN
    PROVE  LET t == Deliver(c, id, want)
           IN  t.conn.plan = c.plan /\ \E f \in Frame : t.frames = <<f>> /\ f.id = id
<1>1. Snapshot(id) \in Frame /\ Snapshot(id).id = id
  BY DEF Snapshot, Frame
<1>2. Announce(id) \in Frame /\ Announce(id).id = id
  BY DEF Announce, Frame
<1> QED
  BY <1>1, <1>2 DEF Deliver, SendingSnapshot, Announcing, Sends, Connection

(* After a greeting the last frame is the plan's, if anything is said; if   *)
(* not, the status named the plan.                                          *)
LEMMA GreetSays ==
    ASSUME NEW c \in Connection, NEW m \in Message, c.plan # NoId
    PROVE  LET fs == Greet(c, m).frames
           IN  IF fs # <<>> THEN fs[Len(fs)].id = c.plan ELSE m.newest = c.plan
<1> DEFINE restored == Restores(c, m)
           restore == IF restored THEN <<[Snapshot(c.lastSent) EXCEPT !.restore = TRUE]>> ELSE <<>>
<1>1. c.plan \in Ids /\ (restored => c.lastSent \in Ids /\ m.newest # c.plan)
  BY DEF Restores, Connection, MaybeId
<1>2. CASE ~HoldsPlan(c, m)
  <2>1. Greet(c, m).frames = Append(restore, Announce(c.plan))
    BY <1>2 DEF Greet, Sends
  <2>2. restore \in Seq(Frame) /\ Announce(c.plan) \in Frame /\ Announce(c.plan).id = c.plan
    <3>1. Announce(c.plan) \in Frame /\ Announce(c.plan).id = c.plan
      BY <1>1 DEF Announce, Frame
    <3>2. restored => [Snapshot(c.lastSent) EXCEPT !.restore = TRUE] \in Frame
      BY <1>1 DEF Snapshot, Frame
    <3> QED
      BY <3>1, <3>2
  <2> HIDE DEF restore
  <2>3. LET fs == Append(restore, Announce(c.plan)) IN fs # <<>> /\ fs[Len(fs)] = Announce(c.plan)
    BY <2>2
  <2> QED
    BY <2>1, <2>2, <2>3
<1>3. CASE HoldsPlan(c, m)
  <2>1. Greet(c, m).frames = restore
    BY <1>3 DEF Greet, Sends
  <2>2. CASE restored
    <3>1. c.lastSent = c.plan
      BY <1>1, <1>3, <2>2 DEF HoldsPlan
    <3>2. restore = <<[Snapshot(c.plan) EXCEPT !.restore = TRUE]>>
      BY <2>2, <3>1
    <3>3. restore # <<>> /\ Len(restore) = 1 /\ restore[1].id = c.plan
      BY <3>2 DEF Snapshot
    <3> QED
      BY <2>1, <3>3
  <2>3. CASE ~restored
    BY <1>3, <2>1, <2>3 DEF HoldsPlan
  <2> QED
    BY <2>2, <2>3
<1> QED
  BY <1>2, <1>3

(* The plan is said to a bridge that has greeted. *)
LEMMA SaysPlan ==
    ASSUME VInv, NEW t, Transmit(t), NEW f \in Frame, t.frames = <<f>>, t.conn.plan = f.id, peer' = peer
    PROVE  PlanSaid'
<1> SUFFICES ASSUME peer = "live" PROVE PlanSaid'
  BY DEF PlanSaid
<1>1. sock = "open" /\ wire \in Seq(Frame)
  BY DEF VInv, Typed, LinkSound
<1>2. conn' = t.conn /\ wire' = wire \o <<f>>
  BY <1>1 DEF Transmit
<1>3. wire' # <<>> /\ wire'[Len(wire')] = f
  BY <1>1, <1>2
<1> QED
  BY <1>2, <1>3 DEF PlanSaid

LEMMA HearMessageSays == ASSUME VInv, PlanSaid, HearMessage PROVE PlanSaid'
<1> SUFFICES ASSUME peer = "live", ~foreign, conn'.first, ~conn'.mismatch, conn'.plan # NoId
             PROVE  IF wire' # <<>> THEN wire'[Len(wire')].id = conn'.plan
                    ELSE bridge.newest = conn'.plan \/ conn'.error \/ ErrorComes'
  BY DEF HearMessage, PlanSaid
<1> DEFINE m == Head(inbox)
           t == Text(conn, m)
<1>1. /\ sock = "open" /\ inbox # <<>> /\ Transmit(t) /\ inbox' = Tail(inbox)
  BY DEF HearMessage
<1>2. /\ m \in Message /\ m = inbox[1] /\ 1 \in 1..Len(inbox)
      /\ Len(inbox') = Len(inbox) - 1 /\ Len(inbox) \in Nat
      /\ \A i \in 1..Len(inbox') : inbox'[i] = inbox[i + 1]
      /\ wire \in Seq(Frame)
  BY <1>1 DEF VInv, Typed
<1>3. conn \in Connection /\ conn.phase = "open"
  BY <1>1 DEF VInv, Typed, SocketAgrees, Connection
<1>4. conn' = t.conn /\ wire' = wire \o t.frames
  BY <1>1 DEF Transmit
<1>5. /\ t.frames \in Seq(Frame)
      /\ t.frames # <<>> => ~conn.first
      /\ (t.conn.first /\ ~conn.first /\ ~t.conn.mismatch) => m.kind = "status"
      /\ conn.first => t.conn.mismatch = conn.mismatch /\ t.conn.error = (conn.error \/ m.kind = "error")
      /\ t.conn.plan = conn.plan
  BY <1>2, <1>3, TextHeard, TextHears, TextKeepsPlan DEF SamePlan
<1>6. CASE ~conn.first
  <2>1. m.kind = "status"
    BY <1>4, <1>5, <1>6
  <2>2. m = StatusOf(bridge) /\ bridge.speaks = "ours"
    BY <1>2, <1>6, <2>1 DEF VInv, Undisturbed, VersionKnown, Speaks, Unreadable
  <2>3. m.newest = bridge.newest
    BY <2>2 DEF StatusOf
  <2>4. t = Greet(conn, m)
    BY <1>3, <1>6, <2>1 DEF Text, FirstStatus
  <2> HIDE DEF t, m
  <2>5. wire = <<>>
    BY <1>6 DEF VInv, GreetedFirst
  <2>6. wire' = t.frames
    BY <1>4, <1>5, <2>5
  <2>7. IF t.frames # <<>> THEN t.frames[Len(t.frames)].id = conn.plan ELSE m.newest = conn.plan
    BY <1>2, <1>3, <1>4, <1>5, <2>4, GreetSays
  <2> QED
    BY <1>4, <1>5, <2>3, <2>6, <2>7
<1>7. CASE conn.first
  <2> HIDE DEF t, m
  <2>1. wire' = wire
    BY <1>2, <1>4, <1>5, <1>7
  <2>2. IF wire # <<>> THEN wire[Len(wire)].id = conn.plan
        ELSE bridge.newest = conn.plan \/ conn.error \/ ErrorComes
    BY <1>4, <1>5, <1>7 DEF PlanSaid
  <2>3. ErrorComes => t.conn.error \/ ErrorComes'
    <3> SUFFICES ASSUME NEW i \in 1..Len(inbox), inbox[i].kind = "error" PROVE t.conn.error \/ ErrorComes'
      BY DEF ErrorComes
    <3>1. CASE i = 1
      BY <1>2, <1>5, <1>7, <3>1
    <3>2. CASE i # 1
      <4>1. i - 1 \in 1..Len(inbox') /\ inbox'[i - 1] = inbox[(i - 1) + 1] /\ (i - 1) + 1 = i
        BY <1>2, <3>2
      <4> QED
        BY <4>1 DEF ErrorComes
    <3> QED
      BY <3>1, <3>2
  <2>4. conn.error => t.conn.error
    BY <1>5, <1>7
  <2> QED
    BY <1>4, <1>5, <2>1, <2>2, <2>3, <2>4
<1> QED
  BY <1>6, <1>7

LEMMA TabSays ==
    ASSUME VInv, BuildsSound, LastStatusTrue, PlanSaid, Player \/ Socket \/ Work PROVE PlanSaid'
<1>1. conn \in Connection /\ builds \subseteq Build
  BY DEF VInv, Typed
<1>2. CASE TurnOn \/ TurnOff \/ ChangeAddress
  <2>1. peer' # "live"
    BY <1>2 DEF TurnOn, TurnOff, ChangeAddress, net, VInv, SocketAgrees, LinkSound
  <2> QED
    BY <2>1 DEF PlanSaid
<1>3. CASE SocketOpens \/ SocketFails \/ SocketCloses \/ HearClosed \/ RetryFires
  <2>1. peer' # "live"
    BY <1>1, <1>3 DEF SocketOpens, SocketFails, SocketCloses, HearClosed, RetryFires, net, VInv, SocketAgrees, LinkSound,
       Connection
  <2> QED
    BY <2>1 DEF PlanSaid
<1>4. CASE ChooseAutoSend
  <2>1. SameSaid(conn, conn')
    BY <1>1, <1>4 DEF ChooseAutoSend, SetAutoSend, Stay, To, SameSaid, Connection
  <2> QED
    BY <1>4, <2>1, SaidAside DEF ChooseAutoSend, net
<1>5. CASE Send
  <2>1. conn.plan \in Ids /\ PressSend(conn) = Deliver(conn, conn.plan, TRUE)
    BY <1>1, <1>5 DEF PressSend, Send, Sendable, Connection, MaybeId
  <2> DEFINE t == Deliver(conn, conn.plan, TRUE)
  <2>2. t.conn.plan = conn.plan /\ \E f \in Frame : t.frames = <<f>> /\ f.id = conn.plan
    BY <1>1, <2>1, DeliverSays
  <2> HIDE DEF t
  <2>3. Transmit(t) /\ peer' = peer
    BY <1>5, <2>1 DEF Send, t
  <2> QED
    BY <2>2, <2>3, SaysPlan
<1>6. CASE Edit \/ \E id \in Ids : SolveDone(id)
  BY <1>6, SaidAside DEF Edit, SolveDone, tab, net, SameSaid
<1>7. ASSUME NEW b \in builds, BuildDone(b) PROVE PlanSaid'
  <2>1. UNCHANGED <<sock, peer, inbox, bridge, foreign>> /\ b.id \in Ids
    BY <1>1, <1>7 DEF BuildDone, Build
  <2>2. CASE UNCHANGED <<conn, wire>>
    BY <2>1, <2>2, SaidAside DEF SameSaid
  <2>3. CASE Transmit(BuildCleared(conn))
    <3> DEFINE t == BuildCleared(conn)
    <3>1. t.conn = [conn EXCEPT !.buildError = FALSE] /\ t.frames = <<>>
      BY DEF BuildCleared, Stay, To
    <3> HIDE DEF t
    <3>2. SameSaid(conn, t.conn)
      BY <1>1, <3>1 DEF Connection, SameSaid
    <3>3. conn' = t.conn /\ wire' = wire
      <4>1. wire \o <<>> = wire
        BY DEF VInv, Typed
      <4> QED
        BY <2>3, <3>1, <4>1 DEF Transmit, t
    <3> QED
      BY <2>1, <3>2, <3>3, SaidAside
  <2>4. CASE b.current /\ Transmit(Solved(conn, b.id))
    <3> SUFFICES ASSUME peer = "live", conn'.first, ~conn'.mismatch PROVE PlanSaid'
      BY <2>1 DEF PlanSaid
    <3> DEFINE next == [conn EXCEPT !.plan = b.id, !.buildError = FALSE]
    <3>1. /\ next \in Connection /\ next.plan = b.id /\ next.phase = conn.phase
          /\ SameStatus(conn, next) /\ conn.auto \in BOOLEAN
      BY <1>1, <2>1 DEF Connection, MaybeId, SameStatus
    <3>2. Solved(conn, b.id) = IF CanSend(next) THEN Deliver(next, b.id, conn.auto) ELSE Stay(next)
      BY <2>4 DEF Solved, BuildsSound
    <3>3. conn.phase = "open"
      BY <1>1 DEF VInv, LinkSound, SocketAgrees, Connection
    <3> HIDE DEF next
    <3>4. CanSend(next)
      <4>1. conn.first /\ ~conn.mismatch
        <5> DEFINE t == Solved(conn, b.id)
        <5>1. t.conn \in Connection /\ SameStatus(conn, t.conn)
          BY <1>1, <2>1, SolvedSaid, SolvedKeepsStatus
        <5> HIDE DEF t
        <5>2. SameStatus(t.conn, conn')
          BY <2>4, <5>1, TransmitKeepsStatus DEF t
        <5> QED
          BY <5>1, <5>2 DEF SameStatus
      <4>2. ~conn.unreadable
        BY <4>1 DEF LastStatusTrue, VersionHeard
      <4> QED
        BY <3>1, <3>3, <4>1, <4>2 DEF CanSend, SameStatus
    <3> DEFINE t == Deliver(next, b.id, conn.auto)
    <3>5. t.conn.plan = b.id /\ \E f \in Frame : t.frames = <<f>> /\ f.id = b.id
      BY <2>1, <3>1, DeliverSays
    <3> HIDE DEF t
    <3>6. Transmit(t)
      BY <2>4, <3>2, <3>4 DEF t
    <3> QED
      BY <2>1, <3>5, <3>6, SaysPlan
  <2> QED
    BY <1>7, <2>2, <2>3, <2>4 DEF BuildDone
<1>8. ASSUME NEW b \in builds, BuildFails(b) PROVE PlanSaid'
  <2>1. conn' = conn \/ conn' = [conn EXCEPT !.buildError = TRUE]
    BY <1>8 DEF BuildFails, BuildFailed, Stay, To
  <2>2. SameSaid(conn, conn')
    BY <1>1, <2>1 DEF SameSaid, Connection
  <2> QED
    BY <1>8, <2>2, SaidAside DEF BuildFails, net
<1> QED
  BY <1>2, <1>3, <1>4, <1>5, <1>6, <1>7, <1>8, HearMessageSays DEF Player, Socket, Work

LEMMA BridgeReadsSays == ASSUME VInv, PlanSaid, BridgeReads PROVE PlanSaid'
<1> SUFFICES ASSUME peer' = "live", ~foreign, conn.first, ~conn.mismatch, conn.plan # NoId
             PROVE  IF wire' # <<>> THEN wire'[Len(wire')].id = conn.plan
                    ELSE bridge'.newest = conn.plan \/ conn.error \/ ErrorComes'
  BY DEF BridgeReads, PlanSaid
<1>1. peer = "live" /\ wire # <<>> /\ wire' = Tail(wire)
  BY DEF BridgeReads, Unread
<1>6. /\ wire \in Seq(Frame) /\ Len(wire) \in Nat /\ Len(wire) >= 1 /\ Head(wire) = wire[1]
      /\ wire' \in Seq(Frame) /\ Len(wire') = Len(wire) - 1
      /\ \A i \in 1..Len(wire') : wire'[i] = wire[i + 1]
  BY <1>1 DEF VInv, Typed
<1>2. /\ wire' # <<>> => wire'[Len(wire')] = wire[Len(wire)]
      /\ wire' = <<>> => Len(wire) = 1
  <2>1. CASE wire' # <<>>
    <3>1. Len(wire') \in 1..Len(wire') /\ Len(wire') + 1 = Len(wire)
      BY <1>6, <2>1
    <3> QED
      BY <1>6, <2>1, <3>1
  <2>2. CASE wire' = <<>>
    BY <1>6, <2>2
  <2> QED
    BY <2>1, <2>2
<1>3. wire[Len(wire)].id = conn.plan
  BY <1>1 DEF PlanSaid
<1>4. CASE wire' # <<>>
  BY <1>2, <1>3, <1>4
<1>5. CASE wire' = <<>>
  <2>1. Head(wire).id = conn.plan
    BY <1>2, <1>3, <1>5, <1>6
  <2>2. CASE Refuses(Head(wire))
    <3>1. inbox' = inbox \o <<ErrorMessage>>
      BY <1>1, <2>2 DEF BridgeReads, Queue
    <3>2. inbox \in Seq(Message) /\ ErrorMessage \in Message /\ ErrorMessage.kind = "error"
      BY MessagesTyped DEF VInv, Typed
    <3>3. Len(inbox) + 1 \in 1..Len(inbox') /\ inbox'[Len(inbox) + 1] = ErrorMessage
      BY <3>1, <3>2
    <3>4. ErrorComes'
      BY <3>2, <3>3 DEF ErrorComes
    <3> QED
      BY <1>5, <3>4
  <2>3. CASE ~Refuses(Head(wire))
    <3>1. bridge'.newest = Head(wire).id
      BY <2>3 DEF BridgeReads, Takes, VInv, Typed
    <3> QED
      BY <1>5, <2>1, <3>1
  <2> QED
    BY <2>2, <2>3
<1> QED
  BY <1>4, <1>5

LEMMA SessionSays == ASSUME VInv, PlanSaid, Session PROVE PlanSaid'
<1>1. CASE BridgeOpens \/ BridgeOpensGarbled
  <2>1. ~conn'.first
    BY <1>1 DEF BridgeOpens, BridgeOpensGarbled, VInv, LinkSound
  <2> QED
    BY <2>1 DEF PlanSaid
<1>2. CASE BridgeReadsLate
  <2>1. peer' = "live" => peer = "live"
    BY <1>2 DEF BridgeReadsLate, Publish, Queue
  <2>2. left # <<>> /\ foreign' = foreign
    BY <1>2 DEF BridgeReadsLate
  <2>3. peer' = "live" => foreign'
    BY <2>1, <2>2 DEF VInv, Undisturbed
  <2> QED
    BY <2>3 DEF PlanSaid
<1>3. CASE BridgeRestarts \/ LinkBreaks
  BY <1>3 DEF BridgeRestarts, LinkBreaks, PlanSaid
<1>4. ASSUME NEW f \in OtherFrames, OtherPlanner(f) PROVE PlanSaid'
  BY <1>4 DEF OtherPlanner, PlanSaid
<1> QED
  BY <1>1, <1>2, <1>3, <1>4, BridgeReadsSays DEF Session

(* What a tab last said to a bridge of its own is its plan, and the bridge  *)
(* took it, will read it, or answered with an error.                        *)
THEOREM ViewerPlanSaid == Spec => []PlanSaid
<1>1. Init => PlanSaid
  BY DEF Init, PlanSaid
<1>2. VInv /\ BuildsSound /\ LastStatusTrue /\ PlanSaid /\ [Next]_vars => PlanSaid'
  <2> SUFFICES ASSUME VInv, BuildsSound, LastStatusTrue, PlanSaid, [Next]_vars PROVE PlanSaid'
    OBVIOUS
  <2>1. CASE UNCHANGED vars
    BY <2>1, SaidAside DEF vars, tab, net, SameSaid
  <2> QED
    BY <2>1, TabSays, SessionSays DEF Next
<1> QED
  BY <1>1, <1>2, ViewerInvariant, ViewerPlanFollows, ViewerLastStatus, PTL DEF Spec

(* With nothing in flight the bridge's newest id is the planner's plan,     *)
(* unless an error is shown or another planner came in between.             *)
THEOREM ViewerNewestIsPlan == Spec => []NewestIsPlan
<1>1. PlanSaid => NewestIsPlan
  BY DEF PlanSaid, NewestIsPlan, Settled, CanSend, ErrorComes
<1> QED
  BY <1>1, ViewerPlanSaid, PTL
=============================================================================
