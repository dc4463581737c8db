------------------------------ MODULE Delivery ------------------------------
(* The bridge and the mod together: two UDP queues on the loopback          *)
(* interface between them, a planner that sends snapshots, a game that is   *)
(* paused (its mod takes no step), saved and loaded, and a bridge that may  *)
(* be restarted.                                                            *)
(*                                                                          *)
(* Loopback UDP keeps the order and makes no copies.  A datagram is lost    *)
(* when the game's socket has no room for it (a fresh socket has very       *)
(* little), and a load closes the socket with everything in it.             *)
EXTENDS Bridge, ModReceiver

CONSTANTS
    MaxSends,       \* snapshot messages from the planner
    MaxAnnounces,   \* announce messages from the planner
    MaxLosses,      \* datagrams lost one by one
    MaxFaults,      \* losses and loads together
    MaxSaves,       \* saves
    MaxLoads,       \* loads
    MaxRestarts,    \* restarts of the bridge
    Clocks,         \* which of the slow clocks "quiet" and "nudge" run
    MaxPings,       \* pings in the game's socket at once
    MaxAnswers      \* answers on their way to the bridge at once

ASSUME BoundsAssumption ==
    /\ {MaxSends, MaxAnnounces, MaxRestarts} \subseteq Nat
    /\ {MaxLosses, MaxFaults, MaxSaves, MaxLoads} \subseteq Nat
    /\ {MaxPings, MaxAnswers} \subseteq Nat \ {0}

VARIABLES
    bridge,         \* the bridge's session
    toMod,          \* datagrams in the game's socket
    toBridge,       \* datagrams in the bridge's socket
    batch,          \* datagrams the poll under way has yet to hand over
    sends, announces, losses, loads, saves, restarts,   \* how often
    dropped         \* history: the ids the mod stored and then did not

bounds == <<sends, announces, losses, loads, saves, restarts>>

vars == <<bridge, modVars, toMod, toBridge, batch, bounds, dropped>>

Pings == Len(SelectSeq(toMod, LAMBDA d : d.type = "P"))

(* A poll is one call of recv_udp, which empties the socket within a tick.  *)
(* The bridge, another process, runs on meanwhile; what it sends goes to    *)
(* the end of the socket, for the next poll.  The game does nothing else.   *)
Draining == batch > 0

(* The driver hands what a call produced to the socket at once.  What the   *)
(* bridge keeps as history is for its own module.                           *)
Flush(s) ==
    /\ bridge' = [Flushed(s) EXCEPT !.chunksUnheard = <<>>, !.probesUnheard = 0]
    /\ toMod' = toMod \o s.out

Init ==
    /\ bridge = Flushed(NewSession)
    /\ ModInit
    /\ toMod = NewSession.out
    /\ toBridge = <<>>
    /\ batch = 0
    /\ sends = 0 /\ announces = 0 /\ losses = 0 /\ loads = 0 /\ saves = 0 /\ restarts = 0
    /\ dropped = {}

-----------------------------------------------------------------------------
(* The bridge. *)

BridgeOnly == UNCHANGED <<modVars, batch, losses, loads, saves, dropped>>

PlannerSends(id) ==
    /\ sends < MaxSends
    /\ sends' = sends + 1
    /\ Flush(ReceiveSnapshot(bridge, id))
    /\ BridgeOnly /\ UNCHANGED <<toBridge, announces, restarts>>

PlannerAnnounces(id) ==
    /\ announces < MaxAnnounces
    /\ announces' = announces + 1
    /\ Flush(Announce(bridge, id))
    /\ BridgeOnly /\ UNCHANGED <<toBridge, sends, restarts>>

BridgeHears ==
    /\ toBridge # <<>>
    /\ Flush(HandleDatagram(bridge, Head(toBridge)))
    /\ toBridge' = Tail(toBridge)
    /\ BridgeOnly /\ UNCHANGED <<sends, announces, restarts>>

BridgeTimeout(pingDue, slotDue) ==
    /\ pingDue => Pings < MaxPings
    /\ Flush(HandleTimeout(bridge, pingDue, slotDue))
    /\ BridgeOnly /\ UNCHANGED <<toBridge, sends, announces, restarts>>

(* The bridge waits on its socket, so a datagram there is handled within    *)
(* any of the intervals the session knows.                                  *)
TimeOnly(s) ==
    /\ toBridge = <<>> /\ ~Draining
    /\ Flush(s)
    /\ BridgeOnly /\ UNCHANGED <<toBridge, sends, announces, restarts>>

ProbeTimePasses == CanAge(bridge) /\ TimeOnly(ProbeAges(bridge))

LinkTurnsQuiet ==
    "quiet" \in Clocks /\ CanTurnQuiet(bridge) /\ TimeOnly(TurnsQuiet(bridge))

NudgeTimePasses ==
    "nudge" \in Clocks /\ ~bridge.nudgeDue /\ TimeOnly(NudgeComesDue(bridge))

(* Nothing is persisted, and the old socket is gone with what it held. *)
BridgeRestarts ==
    /\ restarts < MaxRestarts
    /\ restarts' = restarts + 1
    /\ Flush(NewSession)
    /\ toBridge' = <<>>
    /\ BridgeOnly /\ UNCHANGED <<sends, announces>>

-----------------------------------------------------------------------------
(* The mod. *)

ModOnly == UNCHANGED <<bridge, sends, announces, losses, restarts>>

Drops == dropped' = dropped \cup ({stored} \ {stored', NoId})

(* The game polls: what is in the socket now is handed over. *)
Poll ==
    /\ ~Draining
    /\ toMod # <<>>
    /\ batch' = Len(toMod)
    /\ ModOnly
    /\ UNCHANGED <<modVars, toMod, toBridge, loads, saves, dropped>>

ModHears ==
    /\ Draining
    /\ batch' = batch - 1
    /\ OnDatagram(Head(toMod))
    /\ toMod' = Tail(toMod)
    /\ Drops
    /\ ModOnly /\ UNCHANGED <<toBridge, loads, saves>>

ModFlushes ==
    /\ ~Draining
    /\ Len(toBridge) < MaxAnswers
    /\ TakeAnswer
    /\ toBridge' = Append(toBridge, slot)
    /\ ModOnly /\ UNCHANGED <<toMod, batch, loads, saves, dropped>>

GameSaves ==
    /\ ~Draining
    /\ saves < MaxSaves
    /\ saves' = saves + 1
    /\ Save
    /\ ModOnly /\ UNCHANGED <<toMod, toBridge, batch, loads, dropped>>

GameLoads ==
    /\ ~Draining
    /\ loads < MaxLoads /\ losses + loads < MaxFaults
    /\ loads' = loads + 1
    /\ Load
    /\ Drops
    /\ toMod' = <<>>
    /\ ModOnly /\ UNCHANGED <<toBridge, batch, saves>>

-----------------------------------------------------------------------------
(* The network. *)

LoseToMod ==
    /\ ~Draining
    /\ losses < MaxLosses /\ losses + loads < MaxFaults
    /\ losses' = losses + 1
    /\ \E k \in DOMAIN toMod : toMod' = RemoveAt(toMod, k)
    /\ UNCHANGED <<bridge, modVars, toBridge, batch, sends, announces, loads, saves, restarts, dropped>>

LoseToBridge ==
    /\ ~Draining
    /\ losses < MaxLosses /\ losses + loads < MaxFaults
    /\ losses' = losses + 1
    /\ \E k \in DOMAIN toBridge : toBridge' = RemoveAt(toBridge, k)
    /\ UNCHANGED <<bridge, modVars, toMod, batch, sends, announces, loads, saves, restarts, dropped>>

Next ==
    \/ \E id \in Ids : PlannerSends(id) \/ PlannerAnnounces(id)
    \/ BridgeHears
    \/ \E pingDue, slotDue \in BOOLEAN : BridgeTimeout(pingDue, slotDue)
    \/ ProbeTimePasses
    \/ LinkTurnsQuiet
    \/ NudgeTimePasses
    \/ BridgeRestarts
    \/ Poll
    \/ ModHears
    \/ ModFlushes
    \/ GameSaves
    \/ GameLoads
    \/ LoseToMod
    \/ LoseToBridge

Spec == Init /\ [][Next]_vars

(* The bridge's timers run, its socket is read and its clock goes on; the   *)
(* game does not stay paused forever, so every cycle of ticks ends and      *)
(* flushes.  The clock is held up by a datagram in the bridge's socket, the *)
(* flush by a poll under way, again and again but never for good: those two *)
(* are strong.  What the planner, the player and the network do, and when,  *)
(* is left open.                                                            *)
Fairness ==
    /\ WF_vars(BridgeHears)
    /\ WF_vars(BridgeTimeout(TRUE, FALSE))
    /\ WF_vars(BridgeTimeout(FALSE, TRUE))
    /\ SF_vars(ProbeTimePasses)
    /\ WF_vars(Poll \/ ModHears)
    /\ SF_vars(ModFlushes)

FairSpec == Spec /\ Fairness

-----------------------------------------------------------------------------
(* What the planner is told, against what the mod stores. *)

Outcome ==
    CASE bridge.phase = "idle" -> "none"
      [] bridge.phase \in InProgress \cup {"waiting"} -> "pending"
      [] bridge.phase = "delivered" -> "delivered"
      [] bridge.phase = "rejected" -> "refused"
      [] bridge.phase = "failed" -> "abandoned"

Promise == INSTANCE Mailbox
    WITH offers <- sends, target <- bridge.id, outcome <- Outcome, kept <- stored,
         dropped <- dropped

(* The transfer protocol implements the mailbox: `delivered` only for a     *)
(* snapshot the mod stored, `rejected` only for one it refused; a transfer  *)
(* that is over starts again only when the planner sends the snapshot, and  *)
(* a delivery is taken back only when the mod stored the snapshot and at    *)
(* some time no longer did, with stale answers, resent probes, losses,      *)
(* loads and restarts in between.                                           *)
MailboxKept == Promise!MailSpec

Awaited(d) ==
    /\ d.type = "M" /\ d.id = bridge.id /\ d.round = bridge.round
    /\ bridge.phase = "awaiting"

(* The two reports `on_missing` guards against, a chunk never sent and      *)
(* nothing left to send, do not come from this mod.  Rounds wrap, and a     *)
(* transfer of the same snapshot starts again at round 0, so a report made  *)
(* for an earlier window can pass for the one awaited; it, too, names only  *)
(* chunks the bridge has sent and leaves it something to send.              *)
ReportsMakeSense ==
    toBridge # <<>> /\ Awaited(Head(toBridge)) =>
      LET report == Head(toBridge).report
      IN  /\ ~EmptyWindow(bridge, report)
          /\ \A k \in DOMAIN report : report[k] < bridge.upto

(* The full-size datagrams in the game's socket: not those of the poll      *)
(* under way, which has taken them out.                                     *)
FullSizeAfter(queue, n) == Cardinality({k \in (n + 1)..Len(queue) : FullSize(queue[k])})
FullSizeInBuffer == FullSizeAfter(toMod, batch)

(* "The worst case in the buffer is a paused game holding a whole window,   *)
(* its end-of-window, and a full probe burst for a newer snapshot": 27      *)
(* full-size datagrams with the code's constants.                           *)
BufferBudget == FullSizeInBuffer <= WINDOW_CHUNKS + PROBE_BURST

(* What the game's socket has to hold however long the game is paused and   *)
(* whatever the planner sends meanwhile: what the bridge may send without   *)
(* an answer, a window and a burst of probes, and as much again for each    *)
(* answer it has yet to hear, those on their way and the one in the slot.   *)
BufferRoom ==
    FullSizeInBuffer <= (2 + MaxAnswers) * (WINDOW_CHUNKS + PROBE_BURST)

(* "Each of these proves the mod has drained what came before": an answer   *)
(* that refills the probe budget finds no probe left in the game's socket.  *)
RefillMeansDrained ==
    toBridge # <<>> /\ Refills(bridge, Head(toBridge)) =>
      \A k \in DOMAIN toMod : toMod[k].type # "W"

(* Giving up takes a fault: neither a pause of any length, nor a restart of *)
(* the bridge, nor a planner that changes its mind makes a transfer fail.   *)
FailureNeedsFault == losses = 0 /\ loads = 0 => bridge.phase # "failed"

(* Every transfer comes to an end, if only by giving up: the bridge and the *)
(* mod never wait for each other for good.                                  *)
EventuallySettled ==
    bridge.phase \in InProgress \cup {"waiting"}
      ~> bridge.phase \in {"delivered", "rejected", "failed", "idle"}

(* Faults that are fewer than the tolerance change the end of nothing: the  *)
(* last snapshot is stored and the planner knows, or it was refused and the *)
(* planner knows, and it stays so.                                          *)
EndsRight ==
    <>[](bridge.id # NoId =>
           IF Verdicts[bridge.id] = {"accept"}
           THEN bridge.phase = "delivered" /\ stored = bridge.id
           ELSE bridge.phase = "rejected")

(* The indicator of the mod ends up comparing what is stored with the       *)
(* planner's newest snapshot, whatever was lost and however the transfer    *)
(* ended: pings go on in every phase, and a load is made up for.            *)
NewestArrives ==
    <>[](newest = bridge.newest /\ Indicator \in {"none", "stale"})
=============================================================================
