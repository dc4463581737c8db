------------------------------- MODULE Bridge -------------------------------
(* The bridge's session (bridge/lib/src/bridge.rs): the transfer state      *)
(* machine, the probe budget and the pings.                                 *)
(*                                                                          *)
(* The session is one record and a method of `Bridge` is an operator from   *)
(* session to session, called in the order the method calls it.  `out` is   *)
(* the queue poll_transmit drains; the driver drains it after every call.   *)
(*                                                                          *)
(* The bridge reads no clock, and neither does the model: `probeAge` is the *)
(* time since the last probe and `link` the time since the mod spoke, cut   *)
(* at the values the code compares them with; a ping or a pacing slot may   *)
(* be due at any time.                                                      *)
EXTENDS Wire

CONSTANTS
    WINDOW_CHUNKS,      \* chunks in a window, 24
    PACE_CHUNKS,        \* chunks in a pacing slot, 4
    PROBE_BURST,        \* probes in a full budget, 3
    NO_PROGRESS_LIMIT,  \* fruitless reports or bursts before giving up, 8
    ROUND_MODULUS       \* rounds wrap here, 10000

ASSUME BridgeAssumption ==
    /\ WINDOW_CHUNKS \in Nat \ {0}
    /\ PACE_CHUNKS \in Nat \ {0}
    /\ PROBE_BURST \in Nat \ {0}
    /\ NO_PROGRESS_LIMIT \in Nat \ {0}
    /\ ROUND_MODULUS \in Nat \ {0, 1}

Phases == {"idle", "waiting", "probing", "sending", "awaiting",
           "delivered", "rejected", "failed"}

InProgress == {"probing", "sending", "awaiting"}

(* previous_report before the first report: no window ends at 0. *)
NoReport == [report |-> <<>>, upto |-> 0]

(* round before the first window, so that the next round is 0. *)
NoRound == -1

NewTransfer(s, id) ==
    [s EXCEPT !.phase = "waiting", !.id = id, !.sent = 0, !.round = NoRound,
              !.upto = 0, !.window = <<>>, !.cursor = 0,
              !.previous = NoReport, !.run = 0, !.bursts = 0]

(* The last two fields are history: the chunks sent since the mod was last  *)
(* heard, in order, and the number of probes sent since then.               *)
NewSession ==
    [phase |-> "idle", id |-> NoId, sent |-> 0, round |-> NoRound, upto |-> 0,
     window |-> <<>>, cursor |-> 0, previous |-> NoReport, run |-> 0,
     bursts |-> 0,
     newest |-> NoId, stored |-> NoId, link |-> "none",
     probesLeft |-> PROBE_BURST, probeAge |-> "never", nudgeDue |-> TRUE,
     out |-> <<Ping(NoId)>>,
     chunksUnheard |-> <<>>, probesUnheard |-> 0]

-----------------------------------------------------------------------------
(* Transfer steps. *)

Stop(s, phase) ==
    [s EXCEPT !.window = <<>>, !.cursor = 0, !.phase = phase]

SetDelivered(s) == [Stop(s, "delivered") EXCEPT !.sent = Count[s.id]]

(* Mutant: probes are not budgeted. *)
ProbeTickUnbudgeted(s) ==
    IF s.phase = "probing" /\ s.probeAge # "fresh"
    THEN [s EXCEPT !.out = Append(@, Probe(s.id)),
                   !.probeAge = "fresh",
                   !.probesLeft = @ - 1,
                   !.probesUnheard = @ + 1]
    ELSE s

(* The last probe of the budget ends a burst. *)
ProbeTick(s) ==
    IF s.phase = "probing" /\ s.probesLeft > 0 /\ s.probeAge # "fresh"
    THEN [s EXCEPT !.out = Append(@, Probe(s.id)),
                   !.probeAge = "fresh",
                   !.probesLeft = @ - 1,
                   !.bursts = IF s.probesLeft = 1 THEN @ + 1 ELSE @,
                   !.probesUnheard = @ + 1]
    ELSE s

(* Mutant: every transfer starts with a full probe budget. *)
EnterProbingRefilled(s) ==
    ProbeTick([NewTransfer(s, s.id) EXCEPT !.phase = "probing",
                                           !.probesLeft = PROBE_BURST])

EnterProbing(s) ==
    ProbeTick([s EXCEPT !.phase = "probing", !.round = NoRound, !.upto = 0,
                        !.sent = 0, !.window = <<>>, !.cursor = 0,
                        !.previous = NoReport, !.run = 0, !.bursts = 0])

(* A window holds the reported chunks first, then chunks never sent. *)
Retried(report) == SubSeq(report, 1, Min2(WINDOW_CHUNKS, Len(report)))

FreshChunks(s, report) ==
    Min2(WINDOW_CHUNKS - Len(Retried(report)), Count[s.id] - s.upto)

EmptyWindow(s, report) == report = <<>> /\ s.upto >= Count[s.id]

(* Mutant: a window keeps the round of the one before it. *)
BuildWindowSameRound(s, report) ==
    LET fresh == FreshChunks(s, report)
    IN  [s EXCEPT !.window = Retried(report)
                                \o [k \in 1..fresh |-> s.upto + k - 1],
                  !.cursor = 0, !.upto = @ + fresh, !.round = 0]

BuildWindow(s, report) ==
    LET fresh == FreshChunks(s, report)
    IN  [s EXCEPT !.window = Retried(report)
                                \o [k \in 1..fresh |-> s.upto + k - 1],
                  !.cursor = 0,
                  !.upto = @ + fresh,
                  !.round = (@ + 1) % ROUND_MODULUS]

(* One pacing slot, and the end of the window after its last chunk. *)
SendSlot(s) ==
    LET n      == Min2(PACE_CHUNKS, Len(s.window) - s.cursor)
        chunks == [k \in 1..n |-> Chunk(s.id, s.window[s.cursor + k])]
        paced  == [s EXCEPT !.out = @ \o chunks, !.cursor = @ + n,
                            !.chunksUnheard = @ \o chunks]
    IN  IF paced.cursor >= Len(s.window)
        THEN [paced EXCEPT !.out = Append(@, EndOfWindow(s.id, s.round, s.upto)),
                           !.phase = "awaiting", !.sent = s.upto]
        ELSE paced

SendWindow(s, report) ==
    SendSlot([BuildWindow(s, report) EXCEPT !.phase = "sending"])

-----------------------------------------------------------------------------
(* Datagrams from the mod. *)

(* Mutants: a hello restarts a refused transfer; what the hello says is     *)
(* stored is looked at too late; the end of the window is not sent again; a *)
(* mod that lost the reassembly is not probed again.                        *)
OnHelloRestarting(s, stored, assembling) ==
    CASE s.phase # "idle" /\ stored = s.id -> SetDelivered(s)
      [] s.phase \in {"waiting", "delivered", "rejected"} -> EnterProbing(s)
      [] OTHER -> s

OnHelloUnchecked(s, stored, assembling) ==
    CASE s.phase \in {"waiting", "delivered"} -> EnterProbing(s)
      [] s.phase # "idle" /\ stored = s.id -> SetDelivered(s)
      [] OTHER -> s

OnHelloSilent(s, stored, assembling) ==
    CASE s.phase # "idle" /\ stored = s.id -> SetDelivered(s)
      [] s.phase \in {"waiting", "delivered"} -> EnterProbing(s)
      [] s.phase \in {"sending", "awaiting"} /\ assembling # s.id ->
           EnterProbing(s)
      [] OTHER -> s

OnHelloTrusting(s, stored, assembling) ==
    CASE s.phase # "idle" /\ stored = s.id -> SetDelivered(s)
      [] s.phase \in {"waiting", "delivered"} -> EnterProbing(s)
      [] s.phase = "awaiting" ->
           [s EXCEPT !.out = Append(@, EndOfWindow(s.id, s.round, s.upto))]
      [] OTHER -> s

OnHello(s, stored, assembling) ==
    IF s.phase = "idle"
    THEN s
    ELSE IF stored = s.id
    THEN IF s.phase = "delivered" THEN s ELSE SetDelivered(s)
    ELSE CASE s.phase \in {"waiting", "delivered"} -> EnterProbing(s)
           [] s.phase \in {"sending", "awaiting"} /\ assembling # s.id ->
                EnterProbing(s)
           [] s.phase = "awaiting" /\ assembling = s.id ->
                [s EXCEPT !.out = Append(@, EndOfWindow(s.id, s.round, s.upto))]
           [] OTHER -> s

OnReady(s, id) ==
    IF s.phase = "probing" /\ s.id = id THEN SendWindow(s, <<>>) ELSE s

Fruitless(s) ==
    IF s.run + 1 >= NO_PROGRESS_LIMIT
    THEN [Stop(s, "failed") EXCEPT !.run = @ + 1]
    ELSE [s EXCEPT !.run = @ + 1]

(* Mutants: a report is believed whatever it names; the round of a report   *)
(* is not compared.                                                         *)
OnMissingTrusting(s, id, round, report) ==
    IF s.phase # "awaiting" \/ s.id # id \/ s.round # round
    THEN s
    ELSE SendWindow(s, report)

OnMissingAnyRound(s, id, round, report) ==
    IF s.phase # "awaiting" \/ s.id # id
    THEN s
    ELSE LET answered == [report |-> report, upto |-> s.upto]
             counted  == Fruitless([s EXCEPT !.previous = answered,
                                             !.run = IF s.previous = answered
                                                     THEN @ ELSE 0])
         IN  IF counted.phase = "failed" \/ EmptyWindow(s, report)
             THEN counted
             ELSE SendWindow(counted, report)

(* Mutant: every report counts, also one that shows progress. *)
OnMissingCounting(s, id, round, report) ==
    IF s.phase # "awaiting" \/ s.id # id \/ s.round # round
    THEN s
    ELSE LET counted == Fruitless(s)
         IN  IF counted.phase = "failed" \/ EmptyWindow(s, report)
             THEN counted
             ELSE SendWindow(counted, report)

(* A report of an index the bridge never sent counts, and changes nothing   *)
(* else.  A report is fruitless when it repeats the previous one.           *)
OnMissing(s, id, round, report) ==
    IF s.phase # "awaiting" \/ s.id # id \/ s.round # round
    THEN s
    ELSE IF \E k \in DOMAIN report : report[k] >= s.upto
    THEN Fruitless(s)
    ELSE LET answered == [report |-> report, upto |-> s.upto]
             repeated == s.previous = answered
             counted  == Fruitless([s EXCEPT !.previous = answered,
                                             !.run = IF repeated THEN @ ELSE 0])
         IN  IF counted.phase = "failed" \/ EmptyWindow(s, report)
             THEN counted
             ELSE SendWindow(counted, report)

OnAck(s, id) ==
    IF s.phase = "idle" \/ s.id # id
    THEN s
    ELSE LET known == [s EXCEPT !.stored = id]
         IN  IF s.phase \in InProgress THEN SetDelivered(known) ELSE known

OnRefusal(s, id) ==
    IF s.phase \in InProgress /\ s.id = id THEN Stop(s, "rejected") ELSE s

(* A report, an ack, a refusal, or a hello long after the last probe.  A    *)
(* ready does not: it may answer an early probe of several.                 *)
Refills(s, d) ==
    \/ d.type \in {"M", "A", "N"}
    \/ d.type = "H" /\ s.probeAge \in {"never", "settled"}

Refill(s, d) ==
    IF Refills(s, d) THEN [s EXCEPT !.probesLeft = PROBE_BURST] ELSE s

OnMessage(s, d) ==
    CASE d.type = "H" ->
           OnHello([s EXCEPT !.stored = d.stored], d.stored, d.assembling)
      [] d.type = "R" -> OnReady(s, d.id)
      [] d.type = "M" -> OnMissing(s, d.id, d.round, d.report)
      [] d.type = "A" -> OnAck(s, d.id)
      [] d.type = "N" -> OnRefusal(s, d.id)

(* Bursts without a ready, counted when the budget comes back from empty. *)
GiveUpProbing(s, refilledFromEmpty) ==
    IF /\ refilledFromEmpty
       /\ s.phase = "probing"
       /\ s.bursts >= NO_PROGRESS_LIMIT
    THEN [s EXCEPT !.phase = "failed"]
    ELSE s

HandleMessage(s, d) ==
    LET refilledFromEmpty == Refills(s, d) /\ s.probesLeft = 0
    IN  ProbeTick(GiveUpProbing(OnMessage(Refill(s, d), d), refilledFromEmpty))

OtherVersionHello(s) ==
    LET known == [s EXCEPT !.link = "mismatch", !.stored = NoId]
    IN  IF s.phase \in InProgress THEN Stop(known, "waiting") ELSE known

HandleDatagram(s, d) ==
    LET heard == [s EXCEPT !.chunksUnheard = <<>>, !.probesUnheard = 0]
    IN  IF d.type = "V"
        THEN OtherVersionHello(heard)
        ELSE HandleMessage([heard EXCEPT !.link = "connected"], d)

-----------------------------------------------------------------------------
(* Messages from the planner, timeouts, and time.  A snapshot that is empty *)
(* or above the limits is refused and changes nothing: no id stands for it. *)

Nudge(s) ==
    IF s.nudgeDue
    THEN [s EXCEPT !.out = Append(@, Ping(s.newest)), !.nudgeDue = FALSE]
    ELSE s

ReceiveSnapshot(s, id) ==
    LET nudged == Nudge([s EXCEPT !.newest = id])
        fresh  == NewTransfer(nudged, id)
    IN  IF s.id = id /\ s.phase \in InProgress \cup {"waiting", "delivered"}
        THEN nudged
        ELSE IF s.link # "mismatch" /\ s.stored = id
        THEN SetDelivered(fresh)
        ELSE IF s.link = "connected"
        THEN EnterProbing(fresh)
        ELSE fresh

Announce(s, id) == [s EXCEPT !.newest = id]

(* Mutants: the timer sends the window again; no pings once connected. *)
HandleTimeoutResending(s, pingDue, slotDue) ==
    CASE s.phase \in {"sending", "awaiting"} /\ slotDue ->
           SendSlot([s EXCEPT !.cursor = IF s.phase = "sending" THEN @ ELSE 0])
      [] s.phase = "probing" -> ProbeTick(s)
      [] OTHER -> s

HandleTimeoutNoPings(s, pingDue, slotDue) ==
    LET pinged == IF pingDue /\ s.link # "connected"
                  THEN [s EXCEPT !.out = Append(@, Ping(s.newest))]
                  ELSE s
    IN  CASE s.phase = "sending" /\ slotDue -> SendSlot(pinged)
          [] s.phase = "probing" -> ProbeTick(pinged)
          [] OTHER -> pinged

HandleTimeout(s, pingDue, slotDue) ==
    LET pinged == IF pingDue
                  THEN [s EXCEPT !.out = Append(@, Ping(s.newest))]
                  ELSE s
    IN  CASE s.phase = "sending" /\ slotDue -> SendSlot(pinged)
          [] s.phase = "probing" -> ProbeTick(pinged)
          [] OTHER -> pinged

(* PROBE_INTERVAL, then PROBE_REFILL_AFTER, have passed since the last probe. *)
ProbeAges(s) ==
    [s EXCEPT !.probeAge = IF @ = "fresh" THEN "due" ELSE "settled"]

(* The mod has been silent for quiet_after. *)
TurnsQuiet(s) == [s EXCEPT !.link = "quiet"]

(* PING_INTERVAL has passed since the last nudge. *)
NudgeComesDue(s) == [s EXCEPT !.nudgeDue = TRUE]

CanAge(s) == s.probeAge \in {"fresh", "due"}
CanTurnQuiet(s) == s.link = "connected"

(* poll_transmit, until it returns nothing. *)
Flushed(s) == [s EXCEPT !.out = <<>>]

-----------------------------------------------------------------------------
(* What a session is. *)

SessionType ==
    [phase: Phases, id: MaybeId, sent: Nat, round: Nat \cup {NoRound},
     upto: Nat, window: Seq(Nat), cursor: Nat,
     previous: [report: Seq(Nat), upto: Nat], run: Nat, bursts: Nat,
     newest: MaybeId, stored: MaybeId,
     link: {"none", "connected", "quiet", "mismatch"},
     probesLeft: Nat, probeAge: {"never", "fresh", "due", "settled"},
     nudgeDue: BOOLEAN, out: Seq(BridgeDatagrams),
     chunksUnheard: Seq(BridgeDatagrams), probesUnheard: Nat]

(* A held snapshot has an id; the cuts of it that are out are cuts of it:   *)
(* bridge.rs slices the bytes at the indices of the window and takes the    *)
(* round of the window for granted, and would panic otherwise.              *)
WindowSound(s) ==
    /\ s.phase = "idle" <=> s.id = NoId
    /\ s.phase # "idle" => s.upto <= Count[s.id]
    /\ s.phase = "probing" => s.upto = 0
    /\ s.phase \in {"sending", "awaiting"} =>
         s.round # NoRound /\ s.upto > 0
    /\ s.phase = "sending" => s.cursor < Len(s.window)
    /\ \A k \in DOMAIN s.window : s.window[k] < s.upto
    /\ Len(s.window) <= WINDOW_CHUNKS

(* What a window still has to send. *)
Unsent(s) == IF s.phase = "sending" THEN Len(s.window) - s.cursor ELSE 0

(* What was sent since the mod was last heard, and what may still be sent   *)
(* before it speaks, fit a window and a burst of probes.                    *)
BudgetKept(s) ==
    /\ Len(s.chunksUnheard) + Unsent(s) <= WINDOW_CHUNKS
    /\ s.probesUnheard + s.probesLeft <= PROBE_BURST
=============================================================================
