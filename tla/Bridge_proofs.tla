------------------------------ MODULE Bridge_proofs ------------------------------
(* Every step of the bridge's session keeps a good session good, for every  *)
(* snapshot, window, budget and limit: lemmas about the operators of Bridge *)
(* that the proofs of BridgeSession and of Delivery rest on.                *)
EXTENDS Bridge, TLAPS

(* The inductive invariant, of one session record: the budget of the chunks *)
(* is inductive only with what a window still has to send, and that only    *)
(* with the cursor inside the window.                                       *)
Good(s) ==
    /\ s \in SessionType
    /\ WindowSound(s)
    /\ BudgetKept(s)

-----------------------------------------------------------------------------
(* Datagrams have their type. *)

LEMMA PingType ==
    ASSUME NEW id \in MaybeId
    PROVE  Ping(id) \in BridgeDatagrams
BY DEF Ping, BridgeDatagrams

LEMMA ProbeType ==
    ASSUME NEW id \in Ids
    PROVE  Probe(id) \in BridgeDatagrams
BY DEF Probe, BridgeDatagrams

LEMMA ChunkType ==
    ASSUME NEW id \in Ids, NEW index \in Nat
    PROVE  Chunk(id, index) \in BridgeDatagrams
BY DEF Chunk, BridgeDatagrams

LEMMA EndOfWindowType ==
    ASSUME NEW id \in Ids, NEW round \in Nat, NEW upto \in Nat
    PROVE  EndOfWindow(id, round, upto) \in BridgeDatagrams
BY DEF EndOfWindow, BridgeDatagrams

(* The empty sequence, of either kind. *)
LEMMA Nothing ==
    /\ <<>> \in Seq(Nat)
    /\ <<>> \in Seq(BridgeDatagrams)
    /\ Len(<<>>) = 0
    /\ DOMAIN <<>> = {}
OBVIOUS

LEMMA Concatenation ==
    ASSUME NEW S, NEW a \in Seq(S), NEW b \in Seq(S)
    PROVE  a \o b \in Seq(S) /\ Len(a \o b) = Len(a) + Len(b)
OBVIOUS

LEMMA Element ==
    ASSUME NEW S, NEW a \in Seq(S), NEW k \in 1..Len(a)
    PROVE  a[k] \in S
OBVIOUS

(* The fields of a session the arithmetic of the proofs needs. *)
LEMMA Fields ==
    ASSUME NEW s \in SessionType
    PROVE  /\ s.window \in Seq(Nat) /\ s.cursor \in Nat /\ s.upto \in Nat
           /\ s.chunksUnheard \in Seq(BridgeDatagrams)
           /\ s.out \in Seq(BridgeDatagrams)
           /\ s.probesUnheard \in Nat /\ s.probesLeft \in Nat
           /\ s.bursts \in Nat /\ s.run \in Nat
           /\ s.id \in MaybeId /\ s.newest \in MaybeId
           /\ s.round \in Nat \cup {NoRound}
BY DEF SessionType

LEMMA UnsentNat ==
    ASSUME NEW s, Good(s)
    PROVE  Unsent(s) \in Nat
<1>1. s.window \in Seq(Nat) /\ s.cursor \in Nat
  BY Fields DEF Good
<1>2. Len(s.window) \in Nat
  BY <1>1
<1>3. s.phase = "sending" => s.cursor < Len(s.window)
  BY DEF Good, WindowSound
<1> QED
  BY <1>1, <1>2, <1>3 DEF Unsent

(* A session that holds a snapshot names it. *)
LEMMA HeldId ==
    ASSUME NEW s, Good(s), s.phase # "idle"
    PROVE  s.id \in Ids /\ Count[s.id] \in Nat \ {0}
BY CountAssumption DEF Good, SessionType, WindowSound, MaybeId

-----------------------------------------------------------------------------
(* Two ways to keep a session good: leave the window and what was sent of   *)
(* it alone, or drop the window.                                            *)

LEMMA SameWindow ==
    ASSUME NEW s, Good(s), NEW t \in SessionType,
           t.phase = s.phase, t.id = s.id, t.upto = s.upto, t.round = s.round,
           t.window = s.window, t.cursor = s.cursor,
           t.chunksUnheard = s.chunksUnheard,
           t.probesUnheard + t.probesLeft <= PROBE_BURST
    PROVE  Good(t)
<1>1. WindowSound(t)
  BY DEF Good, WindowSound
<1>2. Unsent(t) = Unsent(s)
  BY DEF Unsent
<1>3. BudgetKept(t)
  BY <1>2 DEF Good, BudgetKept
<1> QED
  BY <1>1, <1>3 DEF Good

LEMMA NoWindow ==
    ASSUME NEW s, Good(s), NEW t \in SessionType,
           t.phase \notin {"idle", "sending", "awaiting"},
           t.id \in Ids, t.upto <= Count[t.id], t.window = <<>>,
           t.phase = "probing" => t.upto = 0,
           t.chunksUnheard = s.chunksUnheard,
           t.probesUnheard + t.probesLeft <= PROBE_BURST
    PROVE  Good(t)
<1>1. t.id # NoId
  BY NoIdAssumption
<1>2. WindowSound(t)
  BY <1>1, Nothing, BridgeAssumption DEF WindowSound
<1>3. Unsent(t) = 0
  BY DEF Unsent
<1>4. Unsent(s) \in Nat /\ Len(s.chunksUnheard) \in Nat
  BY UnsentNat, Fields DEF Good
<1>5. Len(s.chunksUnheard) + Unsent(s) <= WINDOW_CHUNKS
  BY DEF Good, BudgetKept
<1>6. BudgetKept(t)
  BY <1>3, <1>4, <1>5, BridgeAssumption DEF BudgetKept
<1> QED
  BY <1>2, <1>6 DEF Good

-----------------------------------------------------------------------------
(* Every step of a transfer keeps a good session good. *)

LEMMA StopGood ==
    ASSUME NEW s, Good(s), s.phase # "idle",
           NEW phase \in {"waiting", "rejected", "failed", "delivered"}
    PROVE  Good(Stop(s, phase))
<1> DEFINE t == Stop(s, phase)
<1>1. t \in SessionType
  BY Nothing DEF Good, Stop, SessionType, Phases
<1>2. /\ t.phase = phase /\ t.id = s.id /\ t.upto = s.upto /\ t.window = <<>>
      /\ t.chunksUnheard = s.chunksUnheard
      /\ t.probesUnheard = s.probesUnheard /\ t.probesLeft = s.probesLeft
  BY DEF Good, Stop, SessionType
<1>3. s.id \in Ids /\ s.upto <= Count[s.id]
  BY HeldId DEF Good, WindowSound
<1>4. s.probesUnheard + s.probesLeft <= PROBE_BURST
  BY DEF Good, BudgetKept
<1> HIDE DEF t
<1>5. Good(t)
  BY <1>1, <1>2, <1>3, <1>4, NoWindow
<1> QED
  BY <1>5 DEF t

LEMMA ProbeTickGood ==
    ASSUME NEW s, Good(s)
    PROVE  Good(ProbeTick(s))
<1> DEFINE t == ProbeTick(s)
<1>1. CASE s.phase = "probing" /\ s.probesLeft > 0 /\ s.probeAge # "fresh"
  <2>1. Probe(s.id) \in BridgeDatagrams
    BY <1>1, HeldId, ProbeType
  <2>2. t \in SessionType
    <3>1. Append(s.out, Probe(s.id)) \in Seq(BridgeDatagrams)
      BY <2>1, Fields DEF Good
    <3>2. s.probesLeft - 1 \in Nat /\ s.probesUnheard + 1 \in Nat
      BY <1>1, Fields DEF Good
    <3>3. (IF s.probesLeft = 1 THEN s.bursts + 1 ELSE s.bursts) \in Nat
      BY Fields DEF Good
    <3> QED
      BY <1>1, <3>1, <3>2, <3>3 DEF Good, ProbeTick, SessionType
  <2>3. /\ t.phase = s.phase /\ t.id = s.id /\ t.upto = s.upto
        /\ t.round = s.round /\ t.window = s.window /\ t.cursor = s.cursor
        /\ t.chunksUnheard = s.chunksUnheard
    BY <1>1 DEF Good, ProbeTick, SessionType
  <2>4. t.probesUnheard = s.probesUnheard + 1 /\ t.probesLeft = s.probesLeft - 1
    BY <1>1 DEF Good, ProbeTick, SessionType
  <2>5. s.probesUnheard + s.probesLeft <= PROBE_BURST
    BY DEF Good, BudgetKept
  <2>6. s.probesUnheard \in Nat /\ s.probesLeft \in Nat
    BY DEF Good, SessionType
  <2> HIDE DEF t
  <2>7. t.probesUnheard + t.probesLeft <= PROBE_BURST
    BY <2>4, <2>5, <2>6, BridgeAssumption
  <2>8. Good(t)
    BY <2>2, <2>3, <2>7, SameWindow
  <2> QED
    BY <2>8 DEF t
<1>2. CASE ~(s.phase = "probing" /\ s.probesLeft > 0 /\ s.probeAge # "fresh")
  <2>1. t = s
    BY <1>2 DEF ProbeTick
  <2> QED
    BY <2>1
<1> QED
  BY <1>1, <1>2

(* The phases a snapshot message or a hello starts a transfer in. *)
LEMMA NewTransferGood ==
    ASSUME NEW s, Good(s), NEW id \in Ids
    PROVE  Good(NewTransfer(s, id)) /\ NewTransfer(s, id).phase = "waiting"
<1> DEFINE t == NewTransfer(s, id)
<1>1. t \in SessionType
  BY Nothing DEF Good, NewTransfer, SessionType, Phases, MaybeId, NoReport
<1>2. /\ t.phase = "waiting" /\ t.id = id /\ t.upto = 0 /\ t.window = <<>>
      /\ t.chunksUnheard = s.chunksUnheard
      /\ t.probesUnheard = s.probesUnheard /\ t.probesLeft = s.probesLeft
  BY DEF Good, NewTransfer, SessionType
<1>3. 0 <= Count[id]
  BY CountAssumption
<1>4. s.probesUnheard + s.probesLeft <= PROBE_BURST
  BY DEF Good, BudgetKept
<1> HIDE DEF t
<1>5. Good(t)
  BY <1>1, <1>2, <1>3, <1>4, NoWindow
<1> QED
  BY <1>2, <1>5 DEF t

LEMMA EnterProbingGood ==
    ASSUME NEW s, Good(s), s.phase # "idle"
    PROVE  Good(EnterProbing(s))
<1> DEFINE t == [s EXCEPT !.phase = "probing", !.round = NoRound, !.upto = 0,
                          !.sent = 0, !.window = <<>>, !.cursor = 0,
                          !.previous = NoReport, !.run = 0, !.bursts = 0]
<1>1. t \in SessionType
  BY Nothing DEF Good, SessionType, Phases, NoReport
<1>2. /\ t.phase = "probing" /\ t.id = s.id /\ t.upto = 0 /\ t.window = <<>>
      /\ t.chunksUnheard = s.chunksUnheard
      /\ t.probesUnheard = s.probesUnheard /\ t.probesLeft = s.probesLeft
  BY DEF Good, SessionType
<1>3. s.id \in Ids /\ 0 <= Count[s.id]
  BY HeldId
<1>4. s.probesUnheard + s.probesLeft <= PROBE_BURST
  BY DEF Good, BudgetKept
<1>5. EnterProbing(s) = ProbeTick(t)
  BY DEF EnterProbing
<1> HIDE DEF t
<1>6. Good(t)
  BY <1>1, <1>2, <1>3, <1>4, NoWindow
<1> QED
  BY <1>5, <1>6, ProbeTickGood

LEMMA SetDeliveredGood ==
    ASSUME NEW s, Good(s), s.phase # "idle"
    PROVE  Good(SetDelivered(s))
<1> DEFINE u == Stop(s, "delivered")
           t == [u EXCEPT !.sent = Count[s.id]]
<1>1. Good(u)
  BY StopGood
<1>2. u.id = s.id /\ u.phase = "delivered" /\ u.window = <<>>
  BY DEF Good, SessionType, Stop
<1>3. Count[s.id] \in Nat /\ s.id \in Ids
  BY HeldId
<1>4. SetDelivered(s) = t
  BY DEF SetDelivered
<1> HIDE DEF u
<1>5. t \in SessionType
  BY <1>1, <1>3 DEF Good, SessionType
<1>6. /\ t.phase = u.phase /\ t.id = u.id /\ t.upto = u.upto
      /\ t.round = u.round /\ t.window = u.window /\ t.cursor = u.cursor
      /\ t.chunksUnheard = u.chunksUnheard
      /\ t.probesUnheard = u.probesUnheard /\ t.probesLeft = u.probesLeft
  BY <1>1 DEF Good, SessionType
<1>7. u.probesUnheard + u.probesLeft <= PROBE_BURST
  BY <1>1 DEF Good, BudgetKept
<1> HIDE DEF t
<1>8. Good(t)
  BY <1>1, <1>5, <1>6, <1>7, SameWindow
<1> QED
  BY <1>4, <1>8

-----------------------------------------------------------------------------
(* Sending. *)

LEMMA SendSlotGood ==
    ASSUME NEW s, Good(s), s.phase = "sending"
    PROVE  Good(SendSlot(s))
<1> DEFINE n == Min2(PACE_CHUNKS, Len(s.window) - s.cursor)
           chunks == [k \in 1..n |-> Chunk(s.id, s.window[s.cursor + k])]
           paced == [s EXCEPT !.out = @ \o chunks, !.cursor = @ + n,
                              !.chunksUnheard = @ \o chunks]
           ended == [paced EXCEPT
                       !.out = Append(@, EndOfWindow(s.id, s.round, s.upto)),
                       !.phase = "awaiting", !.sent = s.upto]
<1>1. SendSlot(s) = IF paced.cursor >= Len(s.window) THEN ended ELSE paced
  BY DEF SendSlot
<1>2. s \in SessionType /\ WindowSound(s) /\ BudgetKept(s)
  BY DEF Good
<1>3. s.id \in Ids
  BY HeldId
<1>4. /\ s.cursor \in Nat /\ Len(s.window) \in Nat /\ s.cursor < Len(s.window)
      /\ s.window \in Seq(Nat)
  BY <1>2, Fields DEF WindowSound
<1>5. n \in Nat /\ n <= Len(s.window) - s.cursor
  BY <1>4, BridgeAssumption DEF Min2
<1>6. chunks \in Seq(BridgeDatagrams) /\ Len(chunks) = n
  <2>1. \A k \in 1..n : Chunk(s.id, s.window[s.cursor + k]) \in BridgeDatagrams
    <3> SUFFICES ASSUME NEW k \in 1..n
                 PROVE  Chunk(s.id, s.window[s.cursor + k]) \in BridgeDatagrams
      OBVIOUS
    <3>1. s.cursor + k \in 1..Len(s.window)
      BY <1>4, <1>5
    <3>2. s.window[s.cursor + k] \in Nat
      BY <1>4, <3>1, Element
    <3> QED
      BY <1>3, <3>2, ChunkType
  <2> HIDE DEF n
  <2> QED
    BY <1>5, <2>1
<1> HIDE DEF n, chunks
<1>7. /\ s.out \o chunks \in Seq(BridgeDatagrams)
      /\ s.chunksUnheard \o chunks \in Seq(BridgeDatagrams)
      /\ Len(s.chunksUnheard \o chunks) = Len(s.chunksUnheard) + n
      /\ Len(s.chunksUnheard) \in Nat
  <2>1. /\ s.out \in Seq(BridgeDatagrams)
        /\ s.chunksUnheard \in Seq(BridgeDatagrams)
    BY <1>2, Fields
  <2>2. Len(s.chunksUnheard) \in Nat
    BY <2>1
  <2>3. s.out \o chunks \in Seq(BridgeDatagrams)
    BY <2>1, <1>6, Concatenation
  <2>4. /\ s.chunksUnheard \o chunks \in Seq(BridgeDatagrams)
        /\ Len(s.chunksUnheard \o chunks) = Len(s.chunksUnheard) + Len(chunks)
    BY <2>1, <1>6, Concatenation
  <2> QED
    BY <1>6, <2>2, <2>3, <2>4
<1>8. paced \in SessionType
  <2>1. s.cursor + n \in Nat
    BY <1>4, <1>5
  <2> QED
    BY <1>2, <1>7, <2>1 DEF SessionType
<1>9. /\ paced.phase = "sending" /\ paced.id = s.id /\ paced.upto = s.upto
      /\ paced.round = s.round /\ paced.window = s.window
      /\ paced.cursor = s.cursor + n
      /\ paced.chunksUnheard = s.chunksUnheard \o chunks
      /\ paced.probesUnheard = s.probesUnheard
      /\ paced.probesLeft = s.probesLeft
  BY <1>2 DEF SessionType
<1>10. /\ s.round \in Nat /\ s.upto \in Nat /\ s.upto > 0
       /\ s.upto <= Count[s.id] /\ Len(s.window) <= WINDOW_CHUNKS
       /\ \A k \in DOMAIN s.window : s.window[k] < s.upto
  BY <1>2, Fields DEF WindowSound
<1>11. /\ Len(s.chunksUnheard) + (Len(s.window) - s.cursor) <= WINDOW_CHUNKS
       /\ s.probesUnheard + s.probesLeft <= PROBE_BURST
  BY <1>2 DEF BudgetKept, Unsent
<1>12. CASE paced.cursor >= Len(s.window)
  <2>1. EndOfWindow(s.id, s.round, s.upto) \in BridgeDatagrams
    BY <1>3, <1>10, EndOfWindowType
  <2>2. Append(paced.out, EndOfWindow(s.id, s.round, s.upto))
          \in Seq(BridgeDatagrams)
    <3>1. paced.out \in Seq(BridgeDatagrams)
      BY <1>8, Fields
    <3> HIDE DEF paced
    <3> QED
      BY <2>1, <3>1
  <2>3. /\ ended \in SessionType
        /\ ended.phase = "awaiting" /\ ended.id = paced.id
        /\ ended.upto = paced.upto /\ ended.round = paced.round
        /\ ended.window = paced.window
        /\ ended.chunksUnheard = paced.chunksUnheard
        /\ ended.probesUnheard = paced.probesUnheard
        /\ ended.probesLeft = paced.probesLeft
    <3> HIDE DEF paced
    <3> QED
      BY <1>8, <1>10, <2>2 DEF SessionType, Phases
  <2>4. s.id # NoId /\ s.round # NoRound
    BY <1>2, <1>3, NoIdAssumption DEF WindowSound
  <2>5. SendSlot(s) = ended
    BY <1>1, <1>12
  <2> HIDE DEF paced, ended
  <2>6. WindowSound(ended)
    BY <1>9, <1>10, <2>3, <2>4 DEF WindowSound
  <2>7. BudgetKept(ended)
    <3>1. Unsent(ended) = 0
      BY <2>3 DEF Unsent
    <3>2. Len(s.chunksUnheard \o chunks) + 0 <= WINDOW_CHUNKS
      BY <1>4, <1>5, <1>7, <1>11, BridgeAssumption
    <3> QED
      BY <1>9, <1>11, <2>3, <3>1, <3>2 DEF BudgetKept
  <2> QED
    BY <2>3, <2>5, <2>6, <2>7 DEF Good
<1>13. CASE ~(paced.cursor >= Len(s.window))
  <2>1. SendSlot(s) = paced
    BY <1>1, <1>13
  <2> HIDE DEF paced
  <2>2. paced.cursor < Len(s.window)
    BY <1>4, <1>5, <1>9, <1>13
  <2>3. s.id # NoId /\ s.round # NoRound
    BY <1>2, <1>3, NoIdAssumption DEF WindowSound
  <2>4. WindowSound(paced)
    BY <1>9, <1>10, <2>2, <2>3 DEF WindowSound
  <2>5. BudgetKept(paced)
    <3>1. Unsent(paced) = Len(s.window) - (s.cursor + n)
      BY <1>9 DEF Unsent
    <3>2. Len(s.chunksUnheard \o chunks) + (Len(s.window) - (s.cursor + n))
            <= WINDOW_CHUNKS
      BY <1>4, <1>5, <1>7, <1>11, BridgeAssumption
    <3> QED
      BY <1>9, <1>11, <3>1, <3>2 DEF BudgetKept
  <2> QED
    BY <1>8, <2>1, <2>4, <2>5 DEF Good
<1> QED
  BY <1>12, <1>13

LEMMA RetriedFacts ==
    ASSUME NEW report \in Seq(Nat)
    PROVE  /\ Retried(report) \in Seq(Nat)
           /\ Len(Retried(report)) <= WINDOW_CHUNKS
           /\ report # <<>> => Len(Retried(report)) > 0
           /\ \A k \in DOMAIN Retried(report) :
                k \in DOMAIN report /\ Retried(report)[k] = report[k]
<1> DEFINE m == Min2(WINDOW_CHUNKS, Len(report))
<1>1. m \in Nat /\ m <= WINDOW_CHUNKS /\ m <= Len(report)
  BY BridgeAssumption DEF Min2
<1>2. report # <<>> => m > 0
  BY BridgeAssumption DEF Min2
<1>3. Retried(report) = SubSeq(report, 1, m)
  BY DEF Retried
<1> HIDE DEF m
<1>4. /\ SubSeq(report, 1, m) \in Seq(Nat)
      /\ Len(SubSeq(report, 1, m)) = m
      /\ DOMAIN SubSeq(report, 1, m) = 1..m
      /\ \A k \in 1..m : SubSeq(report, 1, m)[k] = report[k]
  BY <1>1
<1> QED
  BY <1>1, <1>2, <1>3, <1>4

(* A window is not empty when there is a chunk to retry or to send, and     *)
(* names only chunks below the new upto.                                    *)
LEMMA WindowBuilt ==
    ASSUME NEW upto \in Nat, NEW fresh \in Nat, NEW retried \in Seq(Nat),
           \A k \in DOMAIN retried : retried[k] < upto
    PROVE  LET window == retried \o [k \in 1..fresh |-> upto + k - 1]
           IN  /\ window \in Seq(Nat)
               /\ Len(window) = Len(retried) + fresh
               /\ \A k \in DOMAIN window : window[k] < upto + fresh
<1> DEFINE new == [k \in 1..fresh |-> upto + k - 1]
           window == retried \o new
<1>1. \A k \in 1..fresh : upto + k - 1 \in Nat /\ upto + k - 1 < upto + fresh
  OBVIOUS
<1>2. new \in Seq(Nat) /\ Len(new) = fresh
  BY <1>1
<1>3. \A k \in 1..fresh : new[k] < upto + fresh
  BY <1>1
<1> HIDE DEF new
<1>4. window \in Seq(Nat) /\ Len(window) = Len(retried) + fresh
  BY <1>2, Concatenation
<1>5. ASSUME NEW k \in DOMAIN window
      PROVE  window[k] < upto + fresh
  <2>1. Len(retried) \in Nat /\ k \in 1..(Len(retried) + fresh)
    BY <1>4, <1>5
  <2>2. CASE k <= Len(retried)
    <3>1. window[k] = retried[k] /\ k \in DOMAIN retried
      BY <1>2, <2>1, <2>2
    <3>2. retried[k] \in Nat /\ retried[k] < upto
      BY <3>1
    <3> QED
      BY <3>1, <3>2
  <2>3. CASE k > Len(retried)
    <3>1. window[k] = new[k - Len(retried)] /\ k - Len(retried) \in 1..fresh
      BY <1>2, <2>1, <2>3
    <3> QED
      BY <1>3, <3>1
  <2> QED
    BY <2>1, <2>2, <2>3
<1> QED
  BY <1>4, <1>5 DEF new

(* A window that is built and not yet begun is one a slot can be sent of.   *)
LEMMA WindowStarted ==
    ASSUME NEW s, Good(s), s.phase # "idle", s.chunksUnheard = <<>>,
           NEW report \in Seq(Nat),
           \A k \in DOMAIN report : report[k] < s.upto,
           ~EmptyWindow(s, report)
    PROVE  /\ Good([BuildWindow(s, report) EXCEPT !.phase = "sending"])
           /\ [BuildWindow(s, report) EXCEPT !.phase = "sending"].phase = "sending"
<1> DEFINE r == Retried(report)
           f == FreshChunks(s, report)
           w == r \o [k \in 1..f |-> s.upto + k - 1]
           b == [s EXCEPT !.window = w, !.cursor = 0, !.upto = @ + f,
                          !.round = (@ + 1) % ROUND_MODULUS]
           t == [b EXCEPT !.phase = "sending"]
<1>1. s \in SessionType /\ WindowSound(s) /\ BudgetKept(s)
  BY DEF Good
<1>2. s.upto \in Nat /\ s.round \in Nat \cup {NoRound}
  BY <1>1, Fields
<1>3. s.id \in Ids /\ Count[s.id] \in Nat /\ s.upto <= Count[s.id]
  BY <1>1, HeldId DEF WindowSound
<1>4. /\ r \in Seq(Nat) /\ Len(r) \in Nat /\ Len(r) <= WINDOW_CHUNKS
      /\ report # <<>> => Len(r) > 0
      /\ \A k \in DOMAIN r : k \in DOMAIN report /\ r[k] = report[k]
  BY RetriedFacts
<1>5. f = Min2(WINDOW_CHUNKS - Len(r), Count[s.id] - s.upto)
  BY DEF FreshChunks
<1>6. EmptyWindow(s, report) <=> report = <<>> /\ s.upto >= Count[s.id]
  BY DEF EmptyWindow
<1>7. \A k \in DOMAIN r : r[k] < s.upto
  BY <1>4
<1> HIDE DEF r
<1>8. /\ f \in Nat /\ Len(r) + f <= WINDOW_CHUNKS /\ s.upto + f <= Count[s.id]
  BY <1>2, <1>3, <1>4, <1>5, BridgeAssumption DEF Min2
<1>9. Len(r) = 0 => f > 0
  BY <1>2, <1>3, <1>4, <1>5, <1>6, BridgeAssumption DEF Min2
<1> HIDE DEF f
<1>10. /\ w \in Seq(Nat) /\ Len(w) = Len(r) + f
       /\ \A k \in DOMAIN w : w[k] < s.upto + f
  BY <1>2, <1>4, <1>7, <1>8, WindowBuilt
<1>11. s.upto + f > 0
  <2>1. CASE f > 0
    BY <1>2, <1>8, <2>1
  <2>2. CASE f = 0
    <3>1. 1 \in DOMAIN r /\ r[1] \in Nat
      BY <1>4, <1>9, <2>2
    <3> QED
      BY <1>2, <1>7, <2>2, <3>1
  <2> QED
    BY <1>8, <2>1, <2>2
<1>12. (s.round + 1) % ROUND_MODULUS \in Nat
  BY <1>2, BridgeAssumption DEF NoRound
<1> HIDE DEF w
<1>13. [BuildWindow(s, report) EXCEPT !.phase = "sending"] = t
  BY DEF BuildWindow, w, f, r
<1>14. s.upto + f \in Nat
  BY <1>2, <1>8
<1>15. /\ t \in SessionType
       /\ t.phase = "sending" /\ t.id = s.id /\ t.window = w /\ t.cursor = 0
       /\ t.upto = s.upto + f /\ t.round = (s.round + 1) % ROUND_MODULUS
       /\ t.chunksUnheard = s.chunksUnheard
       /\ t.probesUnheard = s.probesUnheard /\ t.probesLeft = s.probesLeft
  BY <1>1, <1>10, <1>12, <1>14 DEF SessionType, Phases
<1> HIDE DEF t, b
<1>16. t.id # NoId /\ t.round # NoRound
  BY <1>3, <1>12, <1>15, NoIdAssumption DEF NoRound
<1>17. 0 < Len(w) /\ Len(w) <= WINDOW_CHUNKS /\ Len(w) \in Nat
  BY <1>4, <1>8, <1>9, <1>10
<1>18. WindowSound(t)
  BY <1>8, <1>10, <1>11, <1>15, <1>16, <1>17 DEF WindowSound
<1>19. BudgetKept(t)
  <2>1. Unsent(t) = Len(w) - 0
    BY <1>15 DEF Unsent
  <2>2. Len(s.chunksUnheard) = 0
    BY Nothing
  <2>3. s.probesUnheard + s.probesLeft <= PROBE_BURST
    BY <1>1 DEF BudgetKept
  <2> QED
    BY <1>15, <1>17, <2>1, <2>2, <2>3 DEF BudgetKept
<1>20. Good(t)
  BY <1>15, <1>18, <1>19 DEF Good
<1> QED
  BY <1>13, <1>15, <1>20

LEMMA SendWindowGood ==
    ASSUME NEW s, Good(s), s.phase # "idle", s.chunksUnheard = <<>>,
           NEW report \in Seq(Nat),
           \A k \in DOMAIN report : report[k] < s.upto,
           ~EmptyWindow(s, report)
    PROVE  Good(SendWindow(s, report))
BY WindowStarted, SendSlotGood DEF SendWindow

-----------------------------------------------------------------------------
(* Answering the mod. *)

(* A session that has just heard the mod. *)
Heard(s) ==
    /\ Good(s)
    /\ s.chunksUnheard = <<>>
    /\ s.probesUnheard = 0

LEMMA Budget ==
    ASSUME NEW s, Good(s)
    PROVE  s.probesUnheard + s.probesLeft <= PROBE_BURST
BY DEF Good, BudgetKept

LEMMA HearingGood ==
    ASSUME NEW s, Good(s)
    PROVE  Heard([s EXCEPT !.chunksUnheard = <<>>, !.probesUnheard = 0])
<1> DEFINE t == [s EXCEPT !.chunksUnheard = <<>>, !.probesUnheard = 0]
<1>1. s \in SessionType /\ WindowSound(s)
  BY DEF Good
<1>2. t \in SessionType
  BY <1>1, Nothing DEF SessionType
<1>3. /\ t.phase = s.phase /\ t.id = s.id /\ t.upto = s.upto
      /\ t.round = s.round /\ t.window = s.window /\ t.cursor = s.cursor
      /\ t.probesLeft = s.probesLeft
      /\ t.chunksUnheard = <<>> /\ t.probesUnheard = 0
  BY <1>1 DEF SessionType
<1>4. /\ s.probesUnheard \in Nat /\ s.probesLeft \in Nat
      /\ s.window \in Seq(Nat) /\ s.cursor \in Nat
  BY <1>1, Fields
<1> HIDE DEF t
<1>5. WindowSound(t)
  BY <1>1, <1>3 DEF WindowSound
<1>6. Len(s.window) \in Nat /\ Len(s.window) <= WINDOW_CHUNKS
  BY <1>1, <1>4 DEF WindowSound
<1>7. Unsent(t) \in Int /\ Unsent(t) <= WINDOW_CHUNKS
  BY <1>3, <1>4, <1>6, BridgeAssumption DEF Unsent
<1>8. t.probesUnheard + t.probesLeft <= PROBE_BURST
  BY <1>3, <1>4, Budget, BridgeAssumption
<1>9. Len(t.chunksUnheard) = 0
  BY <1>3, Nothing
<1>10. BudgetKept(t)
  BY <1>7, <1>8, <1>9 DEF BudgetKept
<1>11. Heard(t)
  BY <1>2, <1>3, <1>5, <1>10 DEF Good, Heard
<1> QED
  BY <1>11 DEF t

LEMMA RefillHeard ==
    ASSUME NEW s, Heard(s), NEW d
    PROVE  /\ Heard(Refill(s, d))
           /\ Refill(s, d).phase = s.phase
<1>1. CASE Refills(s, d)
  <2> DEFINE t == [s EXCEPT !.probesLeft = PROBE_BURST]
  <2>1. s \in SessionType /\ Good(s)
    BY DEF Heard, Good
  <2>2. /\ t \in SessionType
        /\ t.phase = s.phase /\ t.id = s.id /\ t.upto = s.upto
        /\ t.round = s.round /\ t.window = s.window /\ t.cursor = s.cursor
        /\ t.chunksUnheard = s.chunksUnheard
        /\ t.probesUnheard = s.probesUnheard /\ t.probesLeft = PROBE_BURST
    BY <2>1, BridgeAssumption DEF SessionType
  <2>3. Refill(s, d) = t
    BY <1>1 DEF Refill
  <2> HIDE DEF t
  <2>4. t.probesUnheard + t.probesLeft <= PROBE_BURST
    BY <2>2, BridgeAssumption DEF Heard
  <2>5. Good(t)
    BY <2>1, <2>2, <2>4, SameWindow
  <2> QED
    BY <2>2, <2>3, <2>5 DEF Heard
<1>2. CASE ~Refills(s, d)
  <2>1. Refill(s, d) = s
    BY <1>2 DEF Refill
  <2> QED
    BY <2>1
<1> QED
  BY <1>1, <1>2

(* What the mod stores is noted: the rest of the session is as before. *)
LEMMA NotedHeard ==
    ASSUME NEW s, Heard(s), NEW id \in MaybeId
    PROVE  /\ Heard([s EXCEPT !.stored = id])
           /\ [s EXCEPT !.stored = id].phase = s.phase
<1> DEFINE t == [s EXCEPT !.stored = id]
<1>1. s \in SessionType /\ Good(s)
  BY DEF Heard, Good
<1>2. /\ t \in SessionType
      /\ t.phase = s.phase /\ t.id = s.id /\ t.upto = s.upto
      /\ t.round = s.round /\ t.window = s.window /\ t.cursor = s.cursor
      /\ t.chunksUnheard = s.chunksUnheard
      /\ t.probesUnheard = s.probesUnheard /\ t.probesLeft = s.probesLeft
  BY <1>1 DEF SessionType
<1> HIDE DEF t
<1>3. Good(t)
  BY <1>1, <1>2, Budget, SameWindow
<1>4. Heard(t)
  BY <1>2, <1>3 DEF Heard
<1> QED
  BY <1>2, <1>4 DEF t

LEMMA OnHelloGood ==
    ASSUME NEW s, Good(s), NEW stored0 \in MaybeId, NEW assembling \in MaybeId
    PROVE  Good(OnHello(s, stored0, assembling))
<1> DEFINE again == [s EXCEPT !.out = Append(@, EndOfWindow(s.id, s.round, s.upto))]
<1>1. CASE s.phase = "idle"
  BY <1>1 DEF OnHello
<1>2. CASE s.phase # "idle" /\ stored0 = s.id
  BY <1>2, SetDeliveredGood DEF OnHello
<1>3. CASE s.phase # "idle" /\ stored0 # s.id /\ s.phase \in {"waiting", "delivered"}
  BY <1>3, EnterProbingGood DEF OnHello
<1>4. CASE /\ s.phase # "idle" /\ stored0 # s.id
           /\ s.phase \in {"sending", "awaiting"} /\ assembling # s.id
  BY <1>4, EnterProbingGood DEF OnHello
<1>5. CASE s.phase = "awaiting" /\ stored0 # s.id /\ assembling = s.id
  <2>1. s \in SessionType /\ WindowSound(s)
    BY DEF Good
  <2>2. s.round \in Nat /\ s.upto \in Nat /\ s.id \in Ids /\ s.out \in Seq(BridgeDatagrams)
    BY <1>5, <2>1, HeldId, Fields DEF WindowSound
  <2>3. Append(s.out, EndOfWindow(s.id, s.round, s.upto)) \in Seq(BridgeDatagrams)
    BY <2>2, EndOfWindowType
  <2>4. /\ again \in SessionType
        /\ again.phase = s.phase /\ again.id = s.id /\ again.upto = s.upto
        /\ again.round = s.round /\ again.window = s.window
        /\ again.cursor = s.cursor
        /\ again.chunksUnheard = s.chunksUnheard
        /\ again.probesUnheard = s.probesUnheard
        /\ again.probesLeft = s.probesLeft
    BY <2>1, <2>3 DEF SessionType
  <2>5. OnHello(s, stored0, assembling) = again
    BY <1>5 DEF OnHello
  <2> HIDE DEF again
  <2> QED
    BY <2>4, <2>5, Budget, SameWindow
<1>6. CASE /\ s.phase # "idle" /\ stored0 # s.id
           /\ s.phase \notin {"waiting", "delivered"}
           /\ ~(s.phase \in {"sending", "awaiting"} /\ assembling # s.id)
           /\ ~(s.phase = "awaiting" /\ assembling = s.id)
  BY <1>6 DEF OnHello
<1> QED
  BY <1>1, <1>2, <1>3, <1>4, <1>5, <1>6

LEMMA OnReadyGood ==
    ASSUME NEW s, Heard(s), NEW id
    PROVE  Good(OnReady(s, id))
<1>1. Good(s)
  BY DEF Heard
<1>2. CASE s.phase = "probing" /\ s.id = id
  <2>1. s.upto = 0 /\ Count[s.id] \in Nat \ {0}
    BY <1>1, <1>2, HeldId DEF Good, WindowSound
  <2>2. ~EmptyWindow(s, <<>>)
    BY <2>1 DEF EmptyWindow
  <2>3. Good(SendWindow(s, <<>>))
    BY <1>1, <1>2, <2>2, Nothing, SendWindowGood DEF Heard
  <2> QED
    BY <1>2, <2>3 DEF OnReady
<1>3. CASE ~(s.phase = "probing" /\ s.id = id)
  BY <1>1, <1>3 DEF OnReady
<1> QED
  BY <1>2, <1>3

LEMMA FruitlessPhase ==
    ASSUME NEW s \in SessionType
    PROVE  /\ Fruitless(s).phase \in {s.phase, "failed"}
           /\ Fruitless(s).chunksUnheard = s.chunksUnheard
           /\ Fruitless(s).probesUnheard = s.probesUnheard
           /\ Fruitless(s).out = s.out /\ Fruitless(s).link = s.link
           /\ Fruitless(s).id = s.id /\ Fruitless(s).upto = s.upto
BY DEF Fruitless, Stop, SessionType

LEMMA FruitlessGood ==
    ASSUME NEW s, Good(s), s.phase # "idle"
    PROVE  /\ Good(Fruitless(s))
           /\ Fruitless(s).phase # "failed" =>
                Fruitless(s) = [s EXCEPT !.run = s.run + 1]
<1>1. s \in SessionType /\ s.run + 1 \in Nat
  BY Fields DEF Good
<1>2. CASE s.run + 1 >= NO_PROGRESS_LIMIT
  <2> DEFINE u == Stop(s, "failed")
             t == [u EXCEPT !.run = @ + 1]
  <2>1. Good(u)
    BY StopGood
  <2>2. u \in SessionType /\ u.phase = "failed" /\ u.run + 1 \in Nat
    <3>1. u \in SessionType
      BY <2>1 DEF Good
    <3>2. u.phase = "failed"
      BY <1>1 DEF Stop, SessionType
    <3> HIDE DEF u
    <3> QED
      BY <3>1, <3>2, Fields
  <2>3. Fruitless(s) = t
    BY <1>2 DEF Fruitless
  <2> HIDE DEF u
  <2>4. /\ t \in SessionType
        /\ t.phase = u.phase /\ t.id = u.id /\ t.upto = u.upto
        /\ t.round = u.round /\ t.window = u.window /\ t.cursor = u.cursor
        /\ t.chunksUnheard = u.chunksUnheard
        /\ t.probesUnheard = u.probesUnheard /\ t.probesLeft = u.probesLeft
    BY <2>2 DEF SessionType
  <2> HIDE DEF t
  <2> QED
    BY <2>1, <2>2, <2>3, <2>4, Budget, SameWindow
<1>3. CASE ~(s.run + 1 >= NO_PROGRESS_LIMIT)
  <2> DEFINE t == [s EXCEPT !.run = @ + 1]
  <2>1. Fruitless(s) = t
    BY <1>3 DEF Fruitless
  <2>2. /\ t \in SessionType
        /\ t.phase = s.phase /\ t.id = s.id /\ t.upto = s.upto
        /\ t.round = s.round /\ t.window = s.window /\ t.cursor = s.cursor
        /\ t.chunksUnheard = s.chunksUnheard
        /\ t.probesUnheard = s.probesUnheard /\ t.probesLeft = s.probesLeft
    BY <1>1 DEF SessionType
  <2>3. Fruitless(s) = [s EXCEPT !.run = s.run + 1]
    BY <2>1
  <2> HIDE DEF t
  <2> QED
    BY <2>1, <2>2, <2>3, Budget, SameWindow
<1> QED
  BY <1>2, <1>3

(* A report leaves the session, counts, or starts the next window.          *)
LEMMA OnMissingCases ==
    ASSUME NEW s, Heard(s), NEW id, NEW round, NEW report \in Seq(Nat)
    PROVE  \/ OnMissing(s, id, round, report) = s
           \/ \E t : /\ Good(t) /\ t.phase \notin {"idle", "sending"}
                    /\ t.chunksUnheard = <<>> /\ t.probesUnheard = 0
                    /\ t.out = s.out /\ t.link = s.link
                    /\ \/ OnMissing(s, id, round, report) = t
                       \/ /\ OnMissing(s, id, round, report) = SendWindow(t, report)
                          /\ \A k \in DOMAIN report : report[k] < t.upto
                          /\ ~EmptyWindow(t, report)
<1> DEFINE stale == s.phase # "awaiting" \/ s.id # id \/ s.round # round
           unsent == \E k \in DOMAIN report : report[k] >= s.upto
           answered == [report |-> report, upto |-> s.upto]
           repeated == s.previous = answered
           noted == [s EXCEPT !.previous = answered,
                              !.run = IF repeated THEN @ ELSE 0]
           counted == Fruitless(noted)
           settled == counted.phase = "failed" \/ EmptyWindow(s, report)
<1>1. OnMissing(s, id, round, report) =
        IF stale THEN s ELSE IF unsent THEN Fruitless(s)
        ELSE IF settled THEN counted ELSE SendWindow(counted, report)
  BY DEF OnMissing
<1>2. Good(s) /\ s \in SessionType /\ s.upto \in Nat /\ s.run \in Nat
  BY Fields DEF Heard, Good
<1>3. CASE stale
  BY <1>1, <1>3
<1>4. CASE ~stale /\ unsent
  <2>1. Good(Fruitless(s))
    BY <1>2, <1>4, FruitlessGood
  <2>2. /\ Fruitless(s).phase \notin {"idle", "sending"}
        /\ Fruitless(s).chunksUnheard = <<>> /\ Fruitless(s).probesUnheard = 0
        /\ Fruitless(s).out = s.out /\ Fruitless(s).link = s.link
    BY <1>2, <1>4, FruitlessPhase DEF Heard
  <2> QED
    BY <1>1, <1>4, <2>1, <2>2
<1>5. CASE ~stale /\ ~unsent
  <2>1. answered \in [report: Seq(Nat), upto: Nat]
    BY <1>2
  <2>2. (IF repeated THEN s.run ELSE 0) \in Nat
    BY <1>2
  <2> HIDE DEF answered, repeated
  <2>3. /\ noted \in SessionType
        /\ noted.phase = s.phase /\ noted.id = s.id /\ noted.upto = s.upto
        /\ noted.round = s.round /\ noted.window = s.window
        /\ noted.cursor = s.cursor
        /\ noted.chunksUnheard = s.chunksUnheard
        /\ noted.probesUnheard = s.probesUnheard
        /\ noted.probesLeft = s.probesLeft
        /\ noted.out = s.out /\ noted.link = s.link
    BY <1>2, <2>1, <2>2 DEF SessionType
  <2> HIDE DEF noted
  <2>4. Good(noted)
    BY <1>2, <2>3, Budget, SameWindow
  <2>5. noted.phase = "awaiting"
    BY <1>5, <2>3
  <2>6. Good(counted)
    BY <2>4, <2>5, FruitlessGood
  <2>7. /\ counted.phase \in {"awaiting", "failed"}
        /\ counted.chunksUnheard = <<>> /\ counted.probesUnheard = 0
        /\ counted.out = s.out /\ counted.link = s.link
        /\ counted.id = s.id /\ counted.upto = s.upto
    BY <2>3, <2>5, FruitlessPhase DEF Heard
  <2> HIDE DEF counted
  <2>8. CASE settled
    BY <1>1, <1>5, <2>6, <2>7, <2>8
  <2>9. CASE ~settled
    <3>1. ~EmptyWindow(counted, report)
      BY <2>7, <2>9 DEF EmptyWindow
    <3>2. \A k \in DOMAIN report : report[k] < counted.upto
      <4> SUFFICES ASSUME NEW k \in DOMAIN report
                   PROVE  report[k] < s.upto
        BY <2>7
      <4>1. report[k] \in Nat
        BY Element
      <4>2. ~(report[k] >= s.upto)
        BY <1>5
      <4> QED
        BY <1>2, <4>1, <4>2
    <3>3. OnMissing(s, id, round, report) = SendWindow(counted, report)
      BY <1>1, <1>5, <2>9
    <3> QED
      BY <2>6, <2>7, <3>1, <3>2, <3>3
  <2> QED
    BY <2>8, <2>9
<1> QED
  BY <1>3, <1>4, <1>5

LEMMA OnMissingGood ==
    ASSUME NEW s, Heard(s), NEW id, NEW round, NEW report \in Seq(Nat)
    PROVE  Good(OnMissing(s, id, round, report))
<1>1. CASE OnMissing(s, id, round, report) = s
  BY <1>1 DEF Heard
<1>2. CASE OnMissing(s, id, round, report) # s
  <2>1. PICK t : /\ Good(t) /\ t.phase \notin {"idle", "sending"}
                 /\ t.chunksUnheard = <<>>
                 /\ \/ OnMissing(s, id, round, report) = t
                    \/ /\ OnMissing(s, id, round, report) = SendWindow(t, report)
                       /\ \A k \in DOMAIN report : report[k] < t.upto
                       /\ ~EmptyWindow(t, report)
    BY <1>2, OnMissingCases
  <2> QED
    BY <2>1, SendWindowGood
<1> QED
  BY <1>1, <1>2

LEMMA OnAckGood ==
    ASSUME NEW s, Heard(s), NEW id \in MaybeId
    PROVE  Good(OnAck(s, id))
<1> DEFINE known == [s EXCEPT !.stored = id]
<1>1. Heard(known) /\ known.phase = s.phase
  BY NotedHeard
<1>2. OnAck(s, id) \in {s, known, SetDelivered(known)}
  BY DEF OnAck
<1>3. s.phase = "idle" => OnAck(s, id) = s
  BY DEF OnAck
<1>4. s.phase # "idle" => Good(SetDelivered(known))
  BY <1>1, SetDeliveredGood DEF Heard
<1> HIDE DEF known
<1> QED
  BY <1>1, <1>2, <1>3, <1>4 DEF Heard

LEMMA OnRefusalGood ==
    ASSUME NEW s, Good(s), NEW id
    PROVE  Good(OnRefusal(s, id))
BY StopGood DEF OnRefusal, InProgress

LEMMA OnMessageGood ==
    ASSUME NEW s, Heard(s), NEW d \in ModDatagrams, d.type # "V"
    PROVE  Good(OnMessage(s, d))
<1>1. CASE d.type = "H"
  <2>1. d.stored \in MaybeId /\ d.assembling \in MaybeId
    BY <1>1 DEF ModDatagrams
  <2>2. Good([s EXCEPT !.stored = d.stored])
    BY <2>1, NotedHeard DEF Heard
  <2>3. OnMessage(s, d) =
          OnHello([s EXCEPT !.stored = d.stored], d.stored, d.assembling)
    BY <1>1 DEF OnMessage
  <2> QED
    BY <2>1, <2>2, <2>3, OnHelloGood
<1>2. CASE d.type = "R"
  BY <1>2, OnReadyGood DEF OnMessage
<1>3. CASE d.type = "M"
  <2>1. d.report \in Seq(Nat)
    BY <1>3 DEF ModDatagrams, Ascending
  <2> QED
    BY <1>3, <2>1, OnMissingGood DEF OnMessage
<1>4. CASE d.type = "A"
  <2>1. d.id \in MaybeId
    BY <1>4 DEF ModDatagrams, MaybeId
  <2> QED
    BY <1>4, <2>1, OnAckGood DEF OnMessage
<1>5. CASE d.type = "N"
  BY <1>5, OnRefusalGood DEF OnMessage, Heard
<1>6. d.type \in {"H", "R", "M", "A", "N", "V"}
  BY DEF ModDatagrams
<1> QED
  BY <1>1, <1>2, <1>3, <1>4, <1>5, <1>6

LEMMA GiveUpProbingGood ==
    ASSUME NEW s, Good(s), NEW refilledFromEmpty
    PROVE  Good(GiveUpProbing(s, refilledFromEmpty))
<1>1. CASE /\ refilledFromEmpty
           /\ s.phase = "probing"
           /\ s.bursts >= NO_PROGRESS_LIMIT
  <2> DEFINE t == [s EXCEPT !.phase = "failed"]
  <2>1. s \in SessionType /\ WindowSound(s) /\ BudgetKept(s)
    BY DEF Good
  <2>2. /\ t \in SessionType
        /\ t.phase = "failed" /\ t.id = s.id /\ t.upto = s.upto
        /\ t.round = s.round /\ t.window = s.window /\ t.cursor = s.cursor
        /\ t.chunksUnheard = s.chunksUnheard
        /\ t.probesUnheard = s.probesUnheard /\ t.probesLeft = s.probesLeft
    BY <2>1 DEF SessionType, Phases
  <2>3. GiveUpProbing(s, refilledFromEmpty) = t
    BY <1>1 DEF GiveUpProbing
  <2> HIDE DEF t
  <2>4. WindowSound(t)
    BY <1>1, <2>1, <2>2 DEF WindowSound
  <2>5. Unsent(t) = 0 /\ Unsent(s) = 0
    BY <1>1, <2>2 DEF Unsent
  <2>6. BudgetKept(t)
    BY <2>1, <2>2, <2>5 DEF BudgetKept
  <2> QED
    BY <2>2, <2>3, <2>4, <2>6 DEF Good
<1>2. CASE ~(/\ refilledFromEmpty
             /\ s.phase = "probing"
             /\ s.bursts >= NO_PROGRESS_LIMIT)
  BY <1>2 DEF GiveUpProbing
<1> QED
  BY <1>1, <1>2

LEMMA HandleMessageGood ==
    ASSUME NEW s, Heard(s), NEW d \in ModDatagrams, d.type # "V"
    PROVE  Good(HandleMessage(s, d))
<1> DEFINE refilledFromEmpty == Refills(s, d) /\ s.probesLeft = 0
<1>1. Good(OnMessage(Refill(s, d), d))
  BY RefillHeard, OnMessageGood
<1>2. Good(GiveUpProbing(OnMessage(Refill(s, d), d), refilledFromEmpty))
  BY <1>1, GiveUpProbingGood
<1> QED
  BY <1>2, ProbeTickGood DEF HandleMessage

LEMMA OtherVersionHelloGood ==
    ASSUME NEW s, Good(s)
    PROVE  Good(OtherVersionHello(s))
<1> DEFINE t == [s EXCEPT !.link = "mismatch", !.stored = NoId]
<1>1. s \in SessionType
  BY DEF Good
<1>2. /\ t \in SessionType
      /\ t.phase = s.phase /\ t.id = s.id /\ t.upto = s.upto
      /\ t.round = s.round /\ t.window = s.window /\ t.cursor = s.cursor
      /\ t.chunksUnheard = s.chunksUnheard
      /\ t.probesUnheard = s.probesUnheard /\ t.probesLeft = s.probesLeft
  BY <1>1 DEF SessionType, MaybeId
<1>3. OtherVersionHello(s) = IF t.phase \in InProgress THEN Stop(t, "waiting") ELSE t
  BY <1>1, <1>2 DEF OtherVersionHello
<1> HIDE DEF t
<1>4. Good(t)
  BY <1>2, Budget, SameWindow
<1>5. t.phase \in InProgress => Good(Stop(t, "waiting"))
  BY <1>4, StopGood DEF InProgress
<1> QED
  BY <1>3, <1>4, <1>5

LEMMA HandleDatagramGood ==
    ASSUME NEW s, Good(s), NEW d \in ModDatagrams
    PROVE  Good(HandleDatagram(s, d))
<1> DEFINE heard == [s EXCEPT !.chunksUnheard = <<>>, !.probesUnheard = 0]
           linked == [heard EXCEPT !.link = "connected"]
<1>1. Heard(heard)
  BY HearingGood
<1>2. HandleDatagram(s, d) = IF d.type = "V"
                             THEN OtherVersionHello(heard)
                             ELSE HandleMessage(linked, d)
  BY DEF HandleDatagram
<1> HIDE DEF heard
<1>3. Good(heard) /\ heard \in SessionType
  BY <1>1 DEF Heard, Good
<1>4. /\ linked \in SessionType
      /\ linked.phase = heard.phase /\ linked.id = heard.id
      /\ linked.upto = heard.upto /\ linked.round = heard.round
      /\ linked.window = heard.window /\ linked.cursor = heard.cursor
      /\ linked.chunksUnheard = heard.chunksUnheard
      /\ linked.probesUnheard = heard.probesUnheard
      /\ linked.probesLeft = heard.probesLeft
  BY <1>3 DEF SessionType
<1> HIDE DEF linked
<1>5. Heard(linked)
  BY <1>1, <1>3, <1>4, Budget, SameWindow DEF Heard
<1> QED
  BY <1>2, <1>3, <1>5, OtherVersionHelloGood, HandleMessageGood

-----------------------------------------------------------------------------
(* The planner, the timers and the socket. *)

LEMMA AnnounceGood ==
    ASSUME NEW s, Good(s), NEW id \in MaybeId
    PROVE  /\ Good(Announce(s, id))
           /\ Announce(s, id).phase = s.phase
<1> DEFINE t == Announce(s, id)
<1>1. s \in SessionType
  BY DEF Good
<1>2. /\ t \in SessionType
      /\ t.phase = s.phase /\ t.id = s.id /\ t.upto = s.upto
      /\ t.round = s.round /\ t.window = s.window /\ t.cursor = s.cursor
      /\ t.chunksUnheard = s.chunksUnheard
      /\ t.probesUnheard = s.probesUnheard /\ t.probesLeft = s.probesLeft
  BY <1>1 DEF Announce, SessionType
<1> HIDE DEF t
<1>3. Good(t)
  BY <1>2, Budget, SameWindow
<1> QED
  BY <1>2, <1>3 DEF t

(* A ping goes out, by the timer or as a nudge. *)
LEMMA PingedGood ==
    ASSUME NEW s, Good(s), NEW due \in BOOLEAN
    PROVE  LET t == [s EXCEPT !.out = Append(@, Ping(s.newest)), !.nudgeDue = due]
           IN  Good(t) /\ t.phase = s.phase
<1> DEFINE t == [s EXCEPT !.out = Append(@, Ping(s.newest)), !.nudgeDue = due]
<1>1. s \in SessionType /\ s.out \in Seq(BridgeDatagrams) /\ s.newest \in MaybeId
  BY Fields DEF Good
<1>2. Append(s.out, Ping(s.newest)) \in Seq(BridgeDatagrams)
  BY <1>1, PingType
<1>3. /\ t \in SessionType
      /\ t.phase = s.phase /\ t.id = s.id /\ t.upto = s.upto
      /\ t.round = s.round /\ t.window = s.window /\ t.cursor = s.cursor
      /\ t.chunksUnheard = s.chunksUnheard
      /\ t.probesUnheard = s.probesUnheard /\ t.probesLeft = s.probesLeft
  BY <1>1, <1>2 DEF SessionType
<1> HIDE DEF t
<1>4. Good(t)
  BY <1>3, Budget, SameWindow
<1> QED
  BY <1>3, <1>4 DEF t

LEMMA NudgeGood ==
    ASSUME NEW s, Good(s)
    PROVE  Good(Nudge(s))
BY PingedGood DEF Nudge

LEMMA ReceiveSnapshotGood ==
    ASSUME NEW s, Good(s), NEW id \in Ids
    PROVE  Good(ReceiveSnapshot(s, id))
<1> DEFINE nudged == Nudge([s EXCEPT !.newest = id])
           fresh == NewTransfer(nudged, id)
<1>1. Good(nudged)
  BY AnnounceGood, NudgeGood DEF Announce, MaybeId
<1>2. ReceiveSnapshot(s, id) \in
        {nudged, fresh, SetDelivered(fresh), EnterProbing(fresh)}
  BY DEF ReceiveSnapshot
<1> HIDE DEF nudged
<1>3. Good(fresh) /\ fresh.phase = "waiting"
  BY <1>1, NewTransferGood
<1> HIDE DEF fresh
<1>4. Good(SetDelivered(fresh)) /\ Good(EnterProbing(fresh))
  BY <1>3, SetDeliveredGood, EnterProbingGood
<1> QED
  BY <1>1, <1>2, <1>3, <1>4

LEMMA HandleTimeoutGood ==
    ASSUME NEW s, Good(s), NEW pingDue \in BOOLEAN, NEW slotDue \in BOOLEAN
    PROVE  Good(HandleTimeout(s, pingDue, slotDue))
<1> DEFINE ping == [s EXCEPT !.out = Append(@, Ping(s.newest))]
           pinged == IF pingDue THEN ping ELSE s
<1>1. Good(ping) /\ ping.phase = s.phase
  <2>1. s \in SessionType /\ s.nudgeDue \in BOOLEAN
    BY DEF Good, SessionType
  <2>2. ping = [s EXCEPT !.out = Append(@, Ping(s.newest)), !.nudgeDue = s.nudgeDue]
    BY <2>1 DEF SessionType
  <2> QED
    BY <2>1, <2>2, PingedGood
<1>2. HandleTimeout(s, pingDue, slotDue) =
        CASE s.phase = "sending" /\ slotDue -> SendSlot(pinged)
          [] s.phase = "probing" -> ProbeTick(pinged)
          [] OTHER -> pinged
  BY DEF HandleTimeout
<1> HIDE DEF ping
<1>3. Good(pinged) /\ pinged.phase = s.phase
  BY <1>1
<1> HIDE DEF pinged
<1>4. Good(ProbeTick(pinged)) /\ (s.phase = "sending" => Good(SendSlot(pinged)))
  BY <1>3, ProbeTickGood, SendSlotGood
<1> QED
  BY <1>2, <1>3, <1>4

LEMMA FlushedGood ==
    ASSUME NEW s, Good(s)
    PROVE  Good(Flushed(s))
<1> DEFINE t == Flushed(s)
<1>1. s \in SessionType
  BY DEF Good
<1>2. /\ t \in SessionType
      /\ t.phase = s.phase /\ t.id = s.id /\ t.upto = s.upto
      /\ t.round = s.round /\ t.window = s.window /\ t.cursor = s.cursor
      /\ t.chunksUnheard = s.chunksUnheard
      /\ t.probesUnheard = s.probesUnheard /\ t.probesLeft = s.probesLeft
  BY <1>1, Nothing DEF Flushed, SessionType
<1> HIDE DEF t
<1>3. Good(t)
  BY <1>2, Budget, SameWindow
<1> QED
  BY <1>3 DEF t

(* The clocks of a session: none of them touches the window or the budget. *)
LEMMA TimeGood ==
    ASSUME NEW s, Good(s),
           NEW t \in {ProbeAges(s), TurnsQuiet(s), NudgeComesDue(s)}
    PROVE  Good(t)
<1>1. s \in SessionType
  BY DEF Good
<1>2. /\ t \in SessionType
      /\ t.phase = s.phase /\ t.id = s.id /\ t.upto = s.upto
      /\ t.round = s.round /\ t.window = s.window /\ t.cursor = s.cursor
      /\ t.chunksUnheard = s.chunksUnheard
      /\ t.probesUnheard = s.probesUnheard /\ t.probesLeft = s.probesLeft
  <2>1. CASE t = ProbeAges(s)
    BY <1>1, <2>1 DEF ProbeAges, SessionType
  <2>2. CASE t = TurnsQuiet(s)
    BY <1>1, <2>2 DEF TurnsQuiet, SessionType
  <2>3. CASE t = NudgeComesDue(s)
    BY <1>1, <2>3 DEF NudgeComesDue, SessionType
  <2> QED
    BY <2>1, <2>2, <2>3
<1> QED
  BY <1>2, Budget, SameWindow

LEMMA NewSessionGood == Good(NewSession)
<1>1. <<Ping(NoId)>> \in Seq(BridgeDatagrams)
  BY PingType DEF MaybeId
<1>2. NewSession \in SessionType
  BY <1>1, Nothing, BridgeAssumption
  DEF NewSession, SessionType, Phases, MaybeId, NoReport
<1>3. /\ NewSession.phase = "idle" /\ NewSession.id = NoId
      /\ NewSession.window = <<>> /\ NewSession.chunksUnheard = <<>>
      /\ NewSession.probesUnheard = 0 /\ NewSession.probesLeft = PROBE_BURST
  BY DEF NewSession
<1>4. WindowSound(NewSession)
  BY <1>3, Nothing, BridgeAssumption DEF WindowSound
<1>5. Unsent(NewSession) = 0
  BY <1>3 DEF Unsent
<1>6. BudgetKept(NewSession)
  BY <1>3, <1>5, Nothing, BridgeAssumption DEF BudgetKept
<1> QED
  BY <1>2, <1>4, <1>6 DEF Good

-----------------------------------------------------------------------------
(* What the steps of a transfer do to the three fields the planner's answer *)
(* rests on: the id, the phase and what the mod is known to store.          *)

SameTransfer(s, t) == t.id = s.id /\ t.stored = s.stored

LEMMA StopSays ==
    ASSUME NEW s \in SessionType, NEW phase
    PROVE  SameTransfer(s, Stop(s, phase)) /\ Stop(s, phase).phase = phase
BY DEF Stop, SameTransfer, SessionType

LEMMA SetDeliveredSays ==
    ASSUME NEW s \in SessionType
    PROVE  /\ SameTransfer(s, SetDelivered(s))
           /\ SetDelivered(s).phase = "delivered"
BY DEF SetDelivered, Stop, SameTransfer, SessionType

LEMMA ProbeTickSays ==
    ASSUME NEW s \in SessionType
    PROVE  SameTransfer(s, ProbeTick(s)) /\ ProbeTick(s).phase = s.phase
BY DEF ProbeTick, SameTransfer, SessionType

LEMMA EnterProbingSays ==
    ASSUME NEW s \in SessionType
    PROVE  /\ SameTransfer(s, EnterProbing(s))
           /\ EnterProbing(s).phase = "probing"
           /\ EnterProbing(s).bursts \in {0, 1}
           /\ s.probesLeft > 1 => EnterProbing(s).bursts = 0
<1> DEFINE t == [s EXCEPT !.phase = "probing", !.round = NoRound, !.upto = 0,
                          !.sent = 0, !.window = <<>>, !.cursor = 0,
                          !.previous = NoReport, !.run = 0, !.bursts = 0]
<1>1. t \in SessionType
  BY Nothing DEF SessionType, Phases, NoReport
<1>2. /\ SameTransfer(s, t) /\ t.phase = "probing" /\ t.bursts = 0
      /\ t.probesLeft = s.probesLeft
  BY DEF SameTransfer, SessionType
<1>3. EnterProbing(s) = ProbeTick(t)
  BY DEF EnterProbing
<1>4. s.probesLeft \in Nat
  BY DEF SessionType
<1> HIDE DEF t
<1>5. \/ ProbeTick(t).bursts = 0
      \/ ProbeTick(t).bursts = 1 /\ t.probesLeft = 1
  <2>1. CASE t.probesLeft = 1
    BY <1>1, <1>2, <2>1 DEF ProbeTick, SessionType
  <2>2. CASE t.probesLeft # 1
    BY <1>1, <1>2, <2>2 DEF ProbeTick, SessionType
  <2> QED
    BY <2>1, <2>2
<1> QED
  BY <1>1, <1>2, <1>3, <1>4, <1>5, ProbeTickSays DEF SameTransfer

(* Also of a session whose window is not known to be sound. *)
LEMMA SendSlotSays ==
    ASSUME NEW s, DOMAIN s = DOMAIN NewSession, s.phase = "sending"
    PROVE  /\ SameTransfer(s, SendSlot(s))
           /\ SendSlot(s).phase \in {"sending", "awaiting"}
<1> DEFINE n == Min2(PACE_CHUNKS, Len(s.window) - s.cursor)
           chunks == [k \in 1..n |-> Chunk(s.id, s.window[s.cursor + k])]
           paced == [s EXCEPT !.out = @ \o chunks, !.cursor = @ + n,
                              !.chunksUnheard = @ \o chunks]
           ended == [paced EXCEPT !.out = Append(@, EndOfWindow(s.id, s.round, s.upto)),
                                  !.phase = "awaiting", !.sent = s.upto]
<1>1. SendSlot(s) = IF paced.cursor >= Len(s.window) THEN ended ELSE paced
  BY DEF SendSlot
<1>2. {"id", "stored", "phase"} \subseteq DOMAIN s
  BY DEF NewSession
<1> HIDE DEF n, chunks
<1>3. SameTransfer(s, paced) /\ paced.phase = "sending" /\ DOMAIN paced = DOMAIN s
  BY <1>2 DEF SameTransfer
<1>4. SameTransfer(paced, ended) /\ ended.phase = "awaiting"
  <2> HIDE DEF paced
  <2> QED
    BY <1>2, <1>3 DEF SameTransfer
<1> HIDE DEF paced, ended
<1> QED
  BY <1>1, <1>3, <1>4 DEF SameTransfer

LEMMA SendWindowSays ==
    ASSUME NEW s \in SessionType, NEW report
    PROVE  /\ SameTransfer(s, SendWindow(s, report))
           /\ SendWindow(s, report).phase \in {"sending", "awaiting"}
<1> DEFINE fresh == FreshChunks(s, report)
           w == Retried(report) \o [k \in 1..fresh |-> s.upto + k - 1]
           u == s.upto + fresh
           r == (s.round + 1) % ROUND_MODULUS
           b == [s EXCEPT !.window = w, !.cursor = 0, !.upto = u, !.round = r]
           t == [b EXCEPT !.phase = "sending"]
<1>1. DOMAIN s = DOMAIN NewSession
  BY DEF SessionType, NewSession
<1>2. BuildWindow(s, report) = b
  BY DEF BuildWindow
<1>3. {"id", "stored", "phase"} \subseteq DOMAIN s
  BY <1>1 DEF NewSession
<1> HIDE DEF w, u, r
<1>4. DOMAIN b = DOMAIN s /\ SameTransfer(s, b)
  BY <1>3 DEF SameTransfer
<1>5. SendWindow(s, report) = SendSlot(t)
  BY <1>2 DEF SendWindow
<1> HIDE DEF b
<1>6. DOMAIN t = DOMAIN s /\ SameTransfer(b, t) /\ t.phase = "sending"
  BY <1>3, <1>4 DEF SameTransfer
<1> HIDE DEF t
<1> QED
  BY <1>1, <1>4, <1>5, <1>6, SendSlotSays DEF SameTransfer

-----------------------------------------------------------------------------
(* What a datagram from the mod does to them. *)

Pending(s) == s.phase \in InProgress \cup {"waiting"}

Still(s, t) == t.phase = s.phase \/ (Pending(s) /\ Pending(t))

(* The snapshot a datagram says the mod stores. *)
Claim(d) ==
    CASE d.type = "A" -> d.id
      [] d.type = "H" -> d.stored
      [] OTHER -> NoId

LEMMA OnHelloSays ==
    ASSUME NEW s \in SessionType, NEW stored0, NEW assembling0
    PROVE  LET t == OnHello(s, stored0, assembling0)
           IN  /\ SameTransfer(s, t)
               /\ \/ Still(s, t)
                  \/ s.phase # "idle" /\ stored0 = s.id /\ t.phase = "delivered"
                  \/ /\ s.phase = "delivered" /\ stored0 # s.id
                     /\ t = EnterProbing(s)
<1> DEFINE t == OnHello(s, stored0, assembling0)
           again == [s EXCEPT !.out = Append(@, EndOfWindow(s.id, s.round, s.upto))]
<1>1. SameTransfer(s, s) /\ Still(s, s)
  BY DEF SameTransfer, Still
<1>2. SameTransfer(s, again) /\ Still(s, again)
  BY DEF SameTransfer, Still, SessionType
<1>3. SameTransfer(s, EnterProbing(s)) /\ (Pending(s) => Still(s, EnterProbing(s)))
  BY EnterProbingSays DEF Still, Pending, InProgress
<1>4. SameTransfer(s, SetDelivered(s)) /\ SetDelivered(s).phase = "delivered"
  BY SetDeliveredSays
<1>5. CASE s.phase = "idle"
  BY <1>1, <1>5 DEF OnHello
<1>6. CASE s.phase # "idle" /\ stored0 = s.id
  <2>1. t = s \/ t = SetDelivered(s)
    BY <1>6 DEF OnHello
  <2> QED
    BY <1>1, <1>4, <1>6, <2>1
<1>7. CASE stored0 # s.id /\ s.phase \in {"waiting", "delivered"}
  <2>1. t = EnterProbing(s)
    BY <1>7 DEF OnHello
  <2>2. Pending(s) \/ s.phase = "delivered"
    BY <1>7 DEF Pending
  <2> QED
    BY <1>3, <1>7, <2>1, <2>2
<1>8. CASE /\ stored0 # s.id /\ s.phase \in {"sending", "awaiting"}
           /\ assembling0 # s.id
  <2>1. t = EnterProbing(s)
    BY <1>8 DEF OnHello
  <2>2. Pending(s)
    BY <1>8 DEF Pending, InProgress
  <2> QED
    BY <1>3, <2>1, <2>2
<1>9. CASE stored0 # s.id /\ s.phase = "awaiting" /\ assembling0 = s.id
  <2>1. t = again
    BY <1>9 DEF OnHello
  <2> QED
    BY <1>2, <2>1
<1>10. CASE /\ s.phase # "idle" /\ stored0 # s.id
            /\ s.phase \notin {"waiting", "delivered"}
            /\ ~(s.phase \in {"sending", "awaiting"} /\ assembling0 # s.id)
            /\ ~(s.phase = "awaiting" /\ assembling0 = s.id)
  <2>1. t = s
    BY <1>10 DEF OnHello
  <2> QED
    BY <1>1, <2>1
<1> HIDE DEF t, again
<1>11. \/ SameTransfer(s, t) /\ Still(s, t)
       \/ /\ SameTransfer(s, t)
          /\ s.phase # "idle" /\ stored0 = s.id /\ t.phase = "delivered"
       \/ /\ SameTransfer(s, t)
          /\ s.phase = "delivered" /\ stored0 # s.id /\ t = EnterProbing(s)
  BY <1>5, <1>6, <1>7, <1>8, <1>9, <1>10 DEF t
<1> QED
  BY <1>11 DEF t

LEMMA FruitlessSays ==
    ASSUME NEW s \in SessionType
    PROVE  /\ SameTransfer(s, Fruitless(s))
           /\ Fruitless(s).phase \in {s.phase, "failed"}
<1>1. SameTransfer(s, Stop(s, "failed")) /\ Stop(s, "failed").phase = "failed"
  BY StopSays
<1>2. DOMAIN Stop(s, "failed") = DOMAIN s /\ {"id", "stored", "phase"} \subseteq DOMAIN s
  BY DEF Stop, SessionType
<1> DEFINE failed == [Stop(s, "failed") EXCEPT !.run = @ + 1]
           counted == [s EXCEPT !.run = @ + 1]
<1>3. SameTransfer(s, failed) /\ failed.phase = "failed"
  BY <1>1, <1>2 DEF SameTransfer
<1>4. SameTransfer(s, counted) /\ counted.phase = s.phase
  BY <1>2 DEF SameTransfer
<1>5. Fruitless(s) = failed \/ Fruitless(s) = counted
  BY DEF Fruitless
<1> HIDE DEF failed, counted
<1> QED
  BY <1>3, <1>4, <1>5

LEMMA OnMissingSays ==
    ASSUME NEW s \in SessionType, NEW id, NEW round, NEW report \in Seq(Nat)
    PROVE  LET t == OnMissing(s, id, round, report)
           IN  /\ SameTransfer(s, t)
               /\ Still(s, t) \/ (Pending(s) /\ t.phase = "failed")
<1> DEFINE t == OnMissing(s, id, round, report)
<1>1. CASE s.phase # "awaiting" \/ s.id # id \/ s.round # round
  BY <1>1 DEF OnMissing, SameTransfer, Still
<1>2. CASE ~(s.phase # "awaiting" \/ s.id # id \/ s.round # round)
  <2>1. Pending(s)
    BY <1>2 DEF Pending, InProgress
  <2> DEFINE answered == [report |-> report, upto |-> s.upto]
             run == IF s.previous = answered THEN s.run ELSE 0
             noted == [s EXCEPT !.previous = answered, !.run = run]
             counted == Fruitless(noted)
  <2>2. noted \in SessionType /\ SameTransfer(s, noted) /\ noted.phase = s.phase
    BY DEF SessionType, SameTransfer
  <2>3. noted = [s EXCEPT !.previous = answered,
                          !.run = IF s.previous = answered THEN @ ELSE 0]
    BY DEF SessionType
  <2>4. t \in {Fruitless(s), counted, SendWindow(counted, report)}
    BY <1>2, <2>3 DEF OnMissing
  <2> HIDE DEF noted
  <2>5. SameTransfer(s, counted) /\ counted.phase \in {s.phase, "failed"}
    BY <2>2, FruitlessSays DEF SameTransfer
  <2>6. SameTransfer(s, Fruitless(s)) /\ Fruitless(s).phase \in {s.phase, "failed"}
    BY FruitlessSays
  <2>7. counted \in SessionType
    <3>1. Nothing!1 /\ noted.run + 1 \in Nat
      BY <2>2, Nothing, Fields
    <3> QED
      BY <2>2, <3>1 DEF Fruitless, Stop, SessionType, Phases
  <2> HIDE DEF counted
  <2>8. /\ SameTransfer(s, SendWindow(counted, report))
        /\ SendWindow(counted, report).phase \in {"sending", "awaiting"}
    BY <2>5, <2>7, SendWindowSays DEF SameTransfer
  <2> HIDE DEF t
  <2> QED
    BY <2>1, <2>4, <2>5, <2>6, <2>8 DEF Still, Pending, InProgress, t
<1> QED
  BY <1>1, <1>2

LEMMA OnAckSays ==
    ASSUME NEW s \in SessionType, NEW id
    PROVE  LET t == OnAck(s, id)
           IN  /\ t.id = s.id /\ t.stored \in {s.stored, id}
               /\ \/ t.phase = s.phase
                  \/ s.id = id /\ Pending(s) /\ t.phase = "delivered"
<1> DEFINE known == [s EXCEPT !.stored = id]
<1>1. known.id = s.id /\ known.stored = id /\ known.phase = s.phase
  BY DEF SessionType
<1>2. /\ SetDelivered(known).id = s.id /\ SetDelivered(known).stored = id
      /\ SetDelivered(known).phase = "delivered"
  BY DEF SetDelivered, Stop, SessionType
<1>3. \/ OnAck(s, id) = s
      \/ OnAck(s, id) = known
      \/ /\ OnAck(s, id) = SetDelivered(known)
         /\ s.id = id /\ s.phase \in InProgress
  BY DEF OnAck
<1> HIDE DEF known
<1> QED
  BY <1>1, <1>2, <1>3 DEF Pending

(* A budget refilled from empty does not end the probing a hello has just   *)
(* started: either its first probe leaves some of the budget, or one burst  *)
(* is not the limit.  The code's budget is 3 and its limit 8.               *)
Patient == PROBE_BURST > 1 \/ NO_PROGRESS_LIMIT > 1

(* What the planner can be told after d: what it was told before, or        *)
(* delivered, refused, given up, or on the way again.                       *)
Heeds(s, d, t) ==
    \/ Still(s, t)
    \/ /\ s.phase # "idle" /\ Claim(d) = s.id
       /\ t.phase = "delivered"
    \/ /\ Pending(s) /\ d.type = "N" /\ d.id = s.id
       /\ t.phase = "rejected"
    \/ Pending(s) /\ t.phase = "failed"
    \/ /\ s.phase = "delivered" /\ d.type = "H" /\ d.stored # s.id
       /\ Pending(t)

LEMMA OnMessageSays ==
    ASSUME NEW s \in SessionType, NEW d \in ModDatagrams, d.type # "V"
    PROVE  LET t == OnMessage(s, d)
           IN  /\ t.id = s.id
               /\ t.stored \in {s.stored, Claim(d)}
               /\ Heeds(s, d, t)
               /\ s.phase = "delivered" /\ t.phase = "probing" =>
                    t.bursts \in {0, 1} /\ (s.probesLeft > 1 => t.bursts = 0)
<1> DEFINE t == OnMessage(s, d)
<1>1. d.type \in {"H", "R", "M", "A", "N"} /\ (d.type = "M" => d.report \in Seq(Nat))
  BY DEF ModDatagrams, Ascending
<1>2. CASE d.type = "H"
  <2> DEFINE noted == [s EXCEPT !.stored = d.stored]
             u == OnHello(noted, d.stored, d.assembling)
  <2>1. d.stored \in MaybeId
    BY <1>2 DEF ModDatagrams
  <2>2. /\ noted \in SessionType /\ noted.id = s.id /\ noted.stored = d.stored
        /\ noted.phase = s.phase /\ noted.probesLeft = s.probesLeft
    BY <2>1 DEF SessionType
  <2>3. t = u /\ Claim(d) = d.stored
    BY <1>2 DEF OnMessage, Claim
  <2> HIDE DEF noted
  <2>4. /\ SameTransfer(noted, u)
        /\ \/ Still(noted, u)
           \/ noted.phase # "idle" /\ d.stored = noted.id /\ u.phase = "delivered"
           \/ /\ noted.phase = "delivered" /\ d.stored # noted.id
              /\ u = EnterProbing(noted)
    BY <2>2, OnHelloSays
  <2> HIDE DEF u, t
  <2>5. CASE Still(noted, u)
    BY <1>2, <2>2, <2>3, <2>4, <2>5
    DEF Heeds, Still, Pending, InProgress, SameTransfer, t
  <2>6. CASE noted.phase # "idle" /\ d.stored = noted.id /\ u.phase = "delivered"
    BY <1>2, <2>2, <2>3, <2>4, <2>6 DEF Heeds, SameTransfer, t
  <2>7. CASE /\ noted.phase = "delivered" /\ d.stored # noted.id
             /\ u = EnterProbing(noted)
    BY <1>2, <2>2, <2>3, <2>4, <2>7, EnterProbingSays
    DEF Heeds, Pending, InProgress, SameTransfer, t
  <2> QED
    BY <2>4, <2>5, <2>6, <2>7
<1>3. CASE d.type = "R"
  <2>1. t = s \/ (s.phase = "probing" /\ t = SendWindow(s, <<>>))
    BY <1>3 DEF OnMessage, OnReady
  <2> HIDE DEF t
  <2> QED
    BY <2>1, SendWindowSays DEF Heeds, Still, Pending, InProgress, SameTransfer, t
<1>4. CASE d.type = "M"
  <2>1. t = OnMissing(s, d.id, d.round, d.report)
    BY <1>4 DEF OnMessage
  <2> HIDE DEF t
  <2>2. SameTransfer(s, t) /\ (Still(s, t) \/ (Pending(s) /\ t.phase = "failed"))
    BY <1>1, <1>4, <2>1, OnMissingSays
  <2> QED
    BY <2>2 DEF Heeds, Still, Pending, InProgress, SameTransfer, t
<1>5. CASE d.type = "A"
  <2>1. t = OnAck(s, d.id) /\ Claim(d) = d.id
    BY <1>5 DEF OnMessage, Claim
  <2> HIDE DEF t
  <2>2. /\ t.id = s.id /\ t.stored \in {s.stored, d.id}
        /\ \/ t.phase = s.phase
           \/ s.id = d.id /\ Pending(s) /\ t.phase = "delivered"
    BY <2>1, OnAckSays
  <2> QED
    BY <2>1, <2>2 DEF Heeds, Still, Pending, InProgress, t
<1>6. CASE d.type = "N"
  <2>1. \/ t = s
        \/ Pending(s) /\ s.id = d.id /\ t = Stop(s, "rejected")
    BY <1>6 DEF OnMessage, OnRefusal, Pending
  <2> HIDE DEF t
  <2> QED
    BY <1>6, <2>1, StopSays DEF Heeds, Still, SameTransfer, t
<1> QED
  BY <1>1, <1>2, <1>3, <1>4, <1>5, <1>6

LEMMA HandleMessageSays ==
    ASSUME Patient, NEW s, Heard(s), NEW d \in ModDatagrams, d.type # "V"
    PROVE  LET t == HandleMessage(s, d)
           IN  /\ t.id = s.id
               /\ t.stored \in {s.stored, Claim(d)}
               /\ Heeds(s, d, t)
<1> DEFINE refilled == Refills(s, d) /\ s.probesLeft = 0
           v == Refill(s, d)
           u == OnMessage(v, d)
           g == GiveUpProbing(u, refilled)
           failed == [u EXCEPT !.phase = "failed"]
<1>1. HandleMessage(s, d) = ProbeTick(g)
  BY DEF HandleMessage
<1>2. s \in SessionType /\ Heard(v) /\ v \in SessionType
  BY RefillHeard DEF Heard, Good
<1>3. /\ v.id = s.id /\ v.stored = s.stored /\ v.phase = s.phase
      /\ refilled => v.probesLeft = PROBE_BURST
  BY <1>2 DEF Refill, SessionType
<1>4. u \in SessionType
  BY <1>2, OnMessageGood DEF Good
<1>5. g \in SessionType
  <2>1. Good(u)
    BY <1>2, OnMessageGood
  <2> HIDE DEF u, refilled
  <2> QED
    BY <2>1, GiveUpProbingGood DEF Good
<1> HIDE DEF v
<1>6. /\ u.id = v.id /\ u.stored \in {v.stored, Claim(d)}
      /\ Heeds(v, d, u)
      /\ v.phase = "delivered" /\ u.phase = "probing" =>
           u.bursts \in {0, 1} /\ (v.probesLeft > 1 => u.bursts = 0)
  BY <1>2, OnMessageSays
<1> HIDE DEF u
<1>7. \/ g = u
      \/ refilled /\ u.phase = "probing" /\ u.bursts >= NO_PROGRESS_LIMIT /\ g = failed
  BY DEF GiveUpProbing
<1>8. SameTransfer(u, failed) /\ failed.phase = "failed"
  BY <1>4 DEF SameTransfer, SessionType
<1> HIDE DEF g, failed, refilled
<1>9. SameTransfer(g, ProbeTick(g)) /\ ProbeTick(g).phase = g.phase
  BY <1>5, ProbeTickSays
<1>10. Heeds(s, d, u)
  BY <1>3, <1>6 DEF Heeds, Still, Pending
<1>11. CASE g = u
  BY <1>1, <1>3, <1>6, <1>9, <1>10, <1>11
  DEF Heeds, Still, Pending, SameTransfer
<1>12. CASE /\ refilled /\ u.phase = "probing"
            /\ u.bursts >= NO_PROGRESS_LIMIT /\ g = failed
  <2>1. s.phase # "delivered"
    BY <1>3, <1>6, <1>12, BridgeAssumption DEF Patient
  <2>2. Pending(s)
    BY <1>10, <1>12, <2>1 DEF Heeds, Still, Pending, InProgress
  <2> QED
    BY <1>1, <1>3, <1>6, <1>8, <1>9, <1>12, <2>2 DEF Heeds, SameTransfer
<1> QED
  BY <1>7, <1>11, <1>12

LEMMA OtherVersionSays ==
    ASSUME NEW s \in SessionType
    PROVE  LET t == OtherVersionHello(s)
           IN  t.id = s.id /\ t.stored = NoId /\ Still(s, t)
<1> DEFINE known == [s EXCEPT !.link = "mismatch", !.stored = NoId]
<1>1. /\ known \in SessionType
      /\ known.id = s.id /\ known.stored = NoId /\ known.phase = s.phase
  BY DEF SessionType, MaybeId
<1>2. \/ OtherVersionHello(s) = known
      \/ s.phase \in InProgress /\ OtherVersionHello(s) = Stop(known, "waiting")
  <2>1. OtherVersionHello(s) = IF known.phase \in InProgress
                               THEN Stop(known, "waiting") ELSE known
    BY <1>1 DEF OtherVersionHello
  <2> HIDE DEF known
  <2> QED
    BY <1>1, <2>1
<1> HIDE DEF known
<1> QED
  BY <1>1, <1>2, StopSays DEF SameTransfer, Still, Pending

LEMMA HandleDatagramSays ==
    ASSUME Patient, NEW s, Good(s), NEW d \in ModDatagrams
    PROVE  LET t == HandleDatagram(s, d)
           IN  /\ t.id = s.id
               /\ t.stored \in {s.stored, Claim(d), NoId}
               /\ Heeds(s, d, t)
<1> DEFINE heard == [s EXCEPT !.chunksUnheard = <<>>, !.probesUnheard = 0]
           linked == [heard EXCEPT !.link = "connected"]
<1>1. Heard(heard)
  BY HearingGood
<1>2. heard.id = s.id /\ heard.stored = s.stored /\ heard.phase = s.phase
  BY DEF Good, SessionType
<1>3. HandleDatagram(s, d) = IF d.type = "V"
                             THEN OtherVersionHello(heard)
                             ELSE HandleMessage(linked, d)
  BY DEF HandleDatagram
<1> HIDE DEF heard
<1>4. Good(heard) /\ heard \in SessionType
  BY <1>1 DEF Heard, Good
<1>5. /\ linked \in SessionType
      /\ linked.phase = heard.phase /\ linked.id = heard.id
      /\ linked.upto = heard.upto /\ linked.round = heard.round
      /\ linked.window = heard.window /\ linked.cursor = heard.cursor
      /\ linked.chunksUnheard = heard.chunksUnheard
      /\ linked.probesUnheard = heard.probesUnheard
      /\ linked.probesLeft = heard.probesLeft
      /\ linked.stored = heard.stored
  BY <1>4 DEF SessionType
<1> HIDE DEF linked
<1>6. Heard(linked)
  BY <1>1, <1>4, <1>5, Budget, SameWindow DEF Heard
<1>7. CASE d.type = "V"
  <2>1. HandleDatagram(s, d) = OtherVersionHello(heard)
    BY <1>3, <1>7
  <2> QED
    BY <1>2, <1>4, <2>1, OtherVersionSays DEF Heeds, Still, Pending
<1>8. CASE d.type # "V"
  <2>1. HandleDatagram(s, d) = HandleMessage(linked, d)
    BY <1>3, <1>8
  <2> QED
    BY <1>2, <1>5, <1>6, <1>8, <2>1, HandleMessageSays DEF Heeds, Still, Pending
<1> QED
  BY <1>7, <1>8

-----------------------------------------------------------------------------
(* What the planner and the clock do to them. *)

LEMMA NudgeSays ==
    ASSUME NEW s \in SessionType
    PROVE  SameTransfer(s, Nudge(s)) /\ Nudge(s).phase = s.phase
BY DEF Nudge, SameTransfer, SessionType

LEMMA ReceiveSnapshotSays ==
    ASSUME NEW s, Good(s), NEW id \in Ids
    PROVE  LET t == ReceiveSnapshot(s, id)
           IN  /\ t.id = id /\ t.stored = s.stored
               /\ \/ Pending(t)
                  \/ /\ t.phase = "delivered"
                     /\ s.stored = id \/ (s.phase = "delivered" /\ s.id = id)
<1> DEFINE noted == [s EXCEPT !.newest = id]
           nudged == Nudge(noted)
           fresh == NewTransfer(nudged, id)
<1>1. Good(noted) /\ Good(nudged)
  BY AnnounceGood, NudgeGood DEF Announce, MaybeId
<1>2. noted.id = s.id /\ noted.stored = s.stored /\ noted.phase = s.phase
  BY DEF Good, SessionType
<1>3. /\ nudged.id = s.id /\ nudged.stored = s.stored
      /\ nudged.phase = s.phase
  <2> HIDE DEF noted
  <2> QED
    BY <1>1, <1>2, NudgeSays DEF Good, SameTransfer
<1>4. \/ /\ ReceiveSnapshot(s, id) = nudged
         /\ s.id = id /\ s.phase \in InProgress \cup {"waiting", "delivered"}
      \/ ReceiveSnapshot(s, id) = SetDelivered(fresh) /\ s.stored = id
      \/ ReceiveSnapshot(s, id) = EnterProbing(fresh)
      \/ ReceiveSnapshot(s, id) = fresh
  BY DEF ReceiveSnapshot
<1> HIDE DEF noted, nudged
<1>5. Good(fresh) /\ fresh.phase = "waiting"
  BY <1>1, NewTransferGood
<1>6. fresh \in SessionType /\ fresh.id = id /\ fresh.stored = nudged.stored
  BY <1>1, <1>5 DEF Good, NewTransfer, SessionType
<1> HIDE DEF fresh
<1>7. /\ SameTransfer(fresh, SetDelivered(fresh))
      /\ SetDelivered(fresh).phase = "delivered"
      /\ SameTransfer(fresh, EnterProbing(fresh))
      /\ EnterProbing(fresh).phase = "probing"
  BY <1>6, SetDeliveredSays, EnterProbingSays
<1> QED
  BY <1>3, <1>4, <1>5, <1>6, <1>7 DEF SameTransfer, Pending, InProgress

(* A snapshot that is under way or delivered is not started again. *)
LEMMA SameSnapshotSays ==
    ASSUME NEW s, Good(s), s.phase # "idle", Pending(s) \/ s.phase = "delivered"
    PROVE  LET t == ReceiveSnapshot(s, s.id)
           IN  SameTransfer(s, t) /\ t.phase = s.phase
<1> DEFINE noted == [s EXCEPT !.newest = s.id]
<1>1. s.id \in Ids
  BY DEF Good, WindowSound, SessionType, MaybeId
<1>2. noted \in SessionType /\ SameTransfer(s, noted) /\ noted.phase = s.phase
  BY <1>1 DEF Good, SessionType, SameTransfer, MaybeId
<1>3. ReceiveSnapshot(s, s.id) = Nudge(noted)
  BY DEF ReceiveSnapshot, Pending, InProgress
<1> HIDE DEF noted
<1> QED
  BY <1>2, <1>3, NudgeSays DEF SameTransfer

LEMMA HandleTimeoutSays ==
    ASSUME NEW s, Good(s), NEW pingDue \in BOOLEAN, NEW slotDue \in BOOLEAN
    PROVE  LET t == HandleTimeout(s, pingDue, slotDue)
           IN  SameTransfer(s, t) /\ Still(s, t)
<1> DEFINE ping == [s EXCEPT !.out = Append(@, Ping(s.newest))]
           pinged == IF pingDue THEN ping ELSE s
           t == HandleTimeout(s, pingDue, slotDue)
<1>1. /\ DOMAIN ping = DOMAIN s
      /\ SameTransfer(s, ping) /\ ping.phase = s.phase
  BY DEF Good, SameTransfer, SessionType
<1>2. ping \in SessionType
  <2>1. s \in SessionType /\ s.out \in Seq(BridgeDatagrams) /\ s.newest \in MaybeId
    BY Fields DEF Good
  <2>2. Append(s.out, Ping(s.newest)) \in Seq(BridgeDatagrams)
    BY <2>1, PingType
  <2> QED
    BY <2>1, <2>2 DEF SessionType
<1>3. t = CASE s.phase = "sending" /\ slotDue -> SendSlot(pinged)
            [] s.phase = "probing" -> ProbeTick(pinged)
            [] OTHER -> pinged
  BY DEF HandleTimeout
<1>4. s \in SessionType
  BY DEF Good
<1> HIDE DEF ping
<1>5. /\ pinged \in SessionType /\ SameTransfer(s, pinged)
      /\ pinged.phase = s.phase
  BY <1>1, <1>2, <1>4 DEF SameTransfer
<1>6. DOMAIN pinged = DOMAIN NewSession
  BY <1>5 DEF SessionType, NewSession
<1> HIDE DEF pinged, t
<1>7. CASE s.phase = "sending" /\ t = SendSlot(pinged)
  BY <1>5, <1>6, <1>7, SendSlotSays DEF SameTransfer, Still, Pending, InProgress, t
<1>8. CASE t = ProbeTick(pinged)
  BY <1>5, <1>8, ProbeTickSays DEF SameTransfer, Still, t
<1>9. CASE t = pinged
  BY <1>5, <1>9 DEF SameTransfer, Still, t
<1> QED
  BY <1>3, <1>7, <1>8, <1>9
=============================================================================
