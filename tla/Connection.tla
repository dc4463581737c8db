----------------------------- MODULE Connection -----------------------------
(* The planner's half of the bridge protocol as viewer/connection.ts has    *)
(* it: a reducer from the connection's state and an event to the next state *)
(* and what the adapter must do.  An event is an operator here, from a      *)
(* connection to a transition [conn, effect, frames]: the effect is what to *)
(* do with the socket and the retry timer, the frames are what to send.     *)
EXTENDS Naturals, Sequences

CONSTANTS
    Ids,        \* snapshot ids the planner's plans can have
    NoId,       \* undefined
    TooLarge    \* the plans above MAX_SNAPSHOT_BYTES, whose bytes are not kept

ASSUME ConnectionAssumption ==
    /\ NoId \notin Ids
    /\ TooLarge \subseteq Ids

MaybeId == Ids \cup {NoId}

(* A text frame from the bridge as parseBridgeMessage reads it: a status of *)
(* our version, one of another version (only the version is read), one of   *)
(* our version that cannot be read, or an error.  The state of the game and *)
(* of the transfer, which a status also carries, is only displayed.         *)
Message == [kind : {"status", "foreign", "unreadable", "error"},
            newest : MaybeId, held : MaybeId]

NoStatus == [kind |-> "none", newest |-> NoId, held |-> NoId]

(* `restore` is history: the frame is the restore of step 2. *)
Frame == [type : {"snapshot", "announce"}, id : Ids, restore : BOOLEAN]

Snapshot(id) == [type |-> "snapshot", id |-> id, restore |-> FALSE]
Announce(id) == [type |-> "announce", id |-> id, restore |-> FALSE]

Connection ==
    [phase : {"off", "connecting", "open", "waiting"},
     status : Message \cup {NoStatus},
     first : BOOLEAN,           \* firstStatusSeen
     mismatch : BOOLEAN,        \* protocolMismatch
     unreadable : BOOLEAN,      \* statusUnreadable
     auto : BOOLEAN,            \* autoSend
     plan : MaybeId,
     lastSent : MaybeId,
     lastFrame : {"none", "snapshot", "announce"},
     paired : BOOLEAN,          \* lastFramePaired
     error : BOOLEAN,
     buildError : BOOLEAN]

InitialConnection(auto) ==
    [phase |-> "off", status |-> NoStatus, first |-> FALSE,
     mismatch |-> FALSE, unreadable |-> FALSE, auto |-> auto, plan |-> NoId,
     lastSent |-> NoId, lastFrame |-> "none", paired |-> FALSE,
     error |-> FALSE, buildError |-> FALSE]

To(c, effect) == [conn |-> c, effect |-> effect, frames |-> <<>>]
Stay(c) == To(c, "none")
Sends(c, frames) == [conn |-> c, effect |-> "none", frames |-> frames]

(* Sending as soon as the socket is open. *)
CanSendEarly(c) == c.phase = "open" /\ ~c.mismatch /\ ~c.unreadable

CanSend(c) == c.phase = "open" /\ c.first /\ ~c.mismatch /\ ~c.unreadable

(* What every new or lost socket forgets of the one before. *)
Ungreeted(c) ==
    [c EXCEPT !.status = NoStatus, !.first = FALSE, !.mismatch = FALSE,
              !.unreadable = FALSE, !.lastFrame = "none", !.paired = FALSE,
              !.error = FALSE]

(* A lost socket that nobody tries to open again. *)
LoseForGood(c) == Stay([Ungreeted(c) EXCEPT !.phase = "waiting"])

Lose(c) == To([Ungreeted(c) EXCEPT !.phase = "waiting"], "scheduleRetry")

SendingSnapshot(c, id) ==
    Sends([c EXCEPT !.lastSent = id, !.lastFrame = "snapshot",
                    !.paired = FALSE, !.error = FALSE],
          <<Snapshot(id)>>)

Announcing(c, id) ==
    Sends([c EXCEPT !.lastFrame = "announce", !.paired = FALSE],
          <<Announce(id)>>)

(* Step 4, with the size check first. *)
Deliver(c, id, wantSnapshot) ==
    IF wantSnapshot /\ id \notin TooLarge
        THEN SendingSnapshot(c, id)
        ELSE Announcing(c, id)

(* A restore that looks at the transfer only. *)
RestoresOverAnnounce(c, m) == c.lastSent # NoId /\ m.held = NoId

(* Step 2: bytes sent before go to a bridge that holds nothing. *)
Restores(c, m) == c.lastSent # NoId /\ m.held = NoId /\ m.newest = NoId

(* Any restore counts as the current plan. *)
HoldsAnyPlan(c, m) == Restores(c, m) \/ m.newest = c.plan

(* Step 3: the bridge has exactly the current plan's bytes, or its id. *)
HoldsPlan(c, m) ==
    \/ Restores(c, m) /\ c.lastSent = c.plan
    \/ m.newest = c.plan

Greet(c, m) ==
    LET seen == [c EXCEPT !.status = m, !.first = TRUE, !.unreadable = FALSE,
                          !.mismatch = FALSE]
        restored == Restores(c, m)
        afterRestore ==
            IF restored THEN SendingSnapshot(seen, c.lastSent).conn ELSE seen
        restore ==
            IF restored
                THEN <<[Snapshot(c.lastSent) EXCEPT !.restore = TRUE]>>
                ELSE <<>>
    IN  IF c.plan # NoId /\ ~HoldsPlan(c, m)
            THEN Sends([Announcing(afterRestore, c.plan).conn
                            EXCEPT !.paired = restored],
                       Append(restore, Announce(c.plan)))
            ELSE Sends(afterRestore, restore)

(* Step 1: nothing is sent to a bridge of another version. *)
FirstStatus(c, m) ==
    IF m.kind = "foreign"
        THEN Stay([c EXCEPT !.status = m, !.first = TRUE,
                            !.unreadable = FALSE, !.mismatch = TRUE])
        ELSE Greet(c, m)

-----------------------------------------------------------------------------
(* The events. *)

Enable(c) ==
    IF c.phase # "off" THEN Stay(c)
    ELSE To([c EXCEPT !.phase = "connecting", !.error = FALSE], "connect")

(* The plan is dropped, the sent bytes stay. *)
Disable(c) ==
    IF c.phase = "off" THEN Stay(c)
    ELSE To([InitialConnection(c.auto) EXCEPT !.lastSent = c.lastSent],
            "disconnect")

SetAutoSend(c, value) == Stay([c EXCEPT !.auto = value])

Opened(c) ==
    IF c.phase # "connecting" THEN Stay(c)
    ELSE Stay([Ungreeted(c) EXCEPT !.phase = "open"])

Closed(c) == IF c.phase \in {"connecting", "open"} THEN Lose(c) ELSE Stay(c)

ConnectThrew(c) == IF c.phase = "connecting" THEN Lose(c) ELSE Stay(c)

Retry(c) ==
    IF c.phase # "waiting" THEN Stay(c)
    ELSE To([c EXCEPT !.phase = "connecting"], "connect")

(* Step 5: the error answers the most recent frame, or either of a pair. *)
BridgeError(c) ==
    Stay([c EXCEPT !.error = TRUE,
                   !.lastSent = IF c.lastFrame = "snapshot" \/ c.paired
                                    THEN NoId ELSE @])

Text(c, m) ==
    CASE c.phase # "open" -> Stay(c)
      [] c.phase = "open" /\ m.kind = "unreadable" ->
            Stay([c EXCEPT !.unreadable = TRUE])
      [] c.phase = "open" /\ m.kind = "error" -> BridgeError(c)
      [] c.phase = "open" /\ m.kind \in {"status", "foreign"} /\ ~c.first ->
            FirstStatus(c, m)
      [] OTHER -> Stay([c EXCEPT !.status = m, !.unreadable = FALSE])

Solved(c, id) ==
    LET next == [c EXCEPT !.plan = id, !.buildError = FALSE] IN
    CASE c.phase = "off" -> Stay(c)
      [] c.phase # "off" /\ ~CanSend(next) -> Stay(next)
      [] OTHER -> Deliver(next, id, c.auto)

BuildFailed(c) ==
    IF c.phase = "off" THEN Stay(c) ELSE Stay([c EXCEPT !.buildError = TRUE])

BuildCleared(c) == Stay([c EXCEPT !.buildError = FALSE])

PressSend(c) ==
    IF CanSend(c) /\ c.plan # NoId THEN Deliver(c, c.plan, TRUE) ELSE Stay(c)

(* One sendFailed per frame that did not leave, in their order. *)
SendFailed(c, frames) ==
    [c EXCEPT !.lastFrame = "none", !.paired = FALSE,
              !.lastSent =
                  IF \E i \in DOMAIN frames : /\ frames[i].type = "snapshot"
                                              /\ frames[i].id = @
                      THEN NoId ELSE @]

-----------------------------------------------------------------------------
(* What the player is shown of the connection, by the badge, the Send       *)
(* button and the first step of the Troubleshoot dialog.  "bridge" stands   *)
(* for every badge that speaks of the game behind a working bridge.         *)
Badge(c) ==
    CASE c.phase = "off" -> "off"
      [] c.phase = "connecting" -> "connecting"
      [] c.phase = "waiting" -> "no-bridge"
      [] c.phase = "open" /\ c.unreadable -> "bad-status"
      [] c.phase = "open" /\ ~c.unreadable /\ c.status = NoStatus ->
            "connecting"
      [] c.phase = "open" /\ ~c.unreadable /\ c.status # NoStatus
            /\ c.mismatch -> "protocol-mismatch"
      [] OTHER -> "bridge"

BridgeStep(c) ==
    CASE Badge(c) = "off" -> "idle"
      [] Badge(c) = "connecting" -> "busy"
      [] Badge(c) = "no-bridge" -> "warn"
      [] Badge(c) \in {"bad-status", "protocol-mismatch"} -> "error"
      [] OTHER -> "ok"

Sendable(c) == CanSend(c) /\ c.plan # NoId
=============================================================================
