---------------------------- MODULE BridgeSession ----------------------------
(* A bridge with a planner that sends any snapshot at any time and a mod    *)
(* that says anything the wire format allows, in any order: what the bridge *)
(* keeps to whatever it hears.                                              *)
EXTENDS Bridge

CONSTANT Inputs     \* what the mod may say

ASSUME InputsAssumption == Inputs \subseteq ModDatagrams

VARIABLE bridge

SessionInit == bridge = NewSession

TakeSnapshot(id) == bridge' = ReceiveSnapshot(Flushed(bridge), id)

TakeAnnounce(id) == bridge' = Announce(Flushed(bridge), id)

Hear(d) == bridge' = HandleDatagram(Flushed(bridge), d)

Timeout(pingDue, slotDue) ==
    bridge' = HandleTimeout(Flushed(bridge), pingDue, slotDue)

TimePasses ==
    \/ CanAge(bridge) /\ bridge' = ProbeAges(Flushed(bridge))
    \/ CanTurnQuiet(bridge) /\ bridge' = TurnsQuiet(Flushed(bridge))
    \/ ~bridge.nudgeDue /\ bridge' = NudgeComesDue(Flushed(bridge))

SessionNext ==
    \/ \E id \in Ids : TakeSnapshot(id)
    \/ \E id \in Ids : TakeAnnounce(id)
    \/ \E d \in Inputs : Hear(d)
    \/ \E pingDue, slotDue \in BOOLEAN : Timeout(pingDue, slotDue)
    \/ TimePasses

SessionSpec == SessionInit /\ [][SessionNext]_bridge

-----------------------------------------------------------------------------
(* The session has the type of its record. *)
TypeOK == bridge \in SessionType

(* The bridge never slices outside the snapshot and never ends a window     *)
(* that has no round, whatever reports it is given (the slice and the       *)
(* `expect` of send_slot).                                                  *)
WindowInv == WindowSound(bridge)

(* "No more can be sent while the mod is silent" (Buffer budget): however   *)
(* often the planner sends and time passes, a silent mod is sent at most a  *)
(* window of chunks and a burst of probes.                                  *)
SilentBudget ==
    /\ Len(bridge.chunksUnheard) <= WINDOW_CHUNKS
    /\ bridge.probesUnheard <= PROBE_BURST

(* "No timer resends a chunk": a chunk goes out again only after the mod    *)
(* was heard, also when the planner goes back and forth between snapshots.  *)
NoTimerResends ==
    \A i, j \in DOMAIN bridge.chunksUnheard :
        bridge.chunksUnheard[i] = bridge.chunksUnheard[j] => i = j

Speaks(s) == \E k \in DOMAIN s.out : s.out[k].type # "P"

(* A refused or failed transfer is over: nothing but pings is sent for it,  *)
(* and only a snapshot message, or a mod that stores it after all, ends it. *)
OverIsOver ==
    [][ bridge.phase \in {"rejected", "failed"} =>
          \/ bridge'.phase = bridge.phase /\ ~Speaks(bridge')
          \/ bridge'.phase = "delivered" /\ bridge'.stored = bridge'.id
               /\ ~Speaks(bridge')
          \/ \E id \in Ids : TakeSnapshot(id) ]_bridge

(* A report that is not the one waited for: of another snapshot, of another *)
(* round, or one more after the transfer went on.                           *)
Stale(d) ==
    /\ d.type = "M"
    /\ ~(bridge.phase = "awaiting" /\ d.id = bridge.id /\ d.round = bridge.round)

Progress(s) == <<s.id, s.sent, s.round, s.upto, s.window, s.cursor, s.previous, s.run>>

Moves ==
    \/ Progress(bridge') # Progress(bridge)
    \/ bridge'.phase \notin {bridge.phase, "failed"}
    \/ \E k \in DOMAIN bridge'.out : bridge'.out[k].type \in {"C", "E"}

(* A stale report may refill the probe budget, and with that send a probe   *)
(* or end the probing; it never moves a transfer, sends a chunk or the end  *)
(* of a window, or counts as the report the next one is compared with.      *)
StaleReportsIgnored ==
    [][Moves => ~ \E d \in Inputs : Stale(d) /\ Hear(d)]_bridge
=============================================================================
