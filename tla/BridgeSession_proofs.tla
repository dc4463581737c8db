------------------------- MODULE BridgeSession_proofs -------------------------
(* What the bridge keeps to whatever it hears, for every snapshot, every    *)
(* window, budget and limit, and every stream of planner messages, mod      *)
(* datagrams and timeouts: its type, the soundness of its window, and the   *)
(* budget of a silent mod.                                                  *)
EXTENDS BridgeSession, Bridge_proofs, SequenceTheorems

-----------------------------------------------------------------------------
IInv == Good(bridge)

(* The session is good for ever: initially, and after each of its actions.  *)
THEOREM SessionGood == SessionSpec => []IInv
<1>1. SessionInit => IInv
  BY NewSessionGood DEF SessionInit, IInv
<1>2. IInv /\ [SessionNext]_bridge => IInv'
  <2> SUFFICES ASSUME Good(bridge), [SessionNext]_bridge
               PROVE  Good(bridge')
    BY DEF IInv
  <2>0. Good(Flushed(bridge))
    BY FlushedGood
  <2>1. ASSUME NEW id \in Ids, TakeSnapshot(id)
        PROVE  Good(bridge')
    BY <2>0, <2>1, ReceiveSnapshotGood DEF TakeSnapshot
  <2>2. ASSUME NEW id \in Ids, TakeAnnounce(id)
        PROVE  Good(bridge')
    BY <2>0, <2>2, AnnounceGood DEF TakeAnnounce, MaybeId
  <2>3. ASSUME NEW d \in Inputs, Hear(d)
        PROVE  Good(bridge')
    BY <2>0, <2>3, InputsAssumption, HandleDatagramGood DEF Hear
  <2>4. ASSUME NEW pingDue \in BOOLEAN, NEW slotDue \in BOOLEAN,
               Timeout(pingDue, slotDue)
        PROVE  Good(bridge')
    BY <2>0, <2>4, HandleTimeoutGood DEF Timeout
  <2>5. CASE TimePasses
    BY <2>0, <2>5, TimeGood DEF TimePasses
  <2>6. CASE UNCHANGED bridge
    BY <2>6
  <2> QED
    BY <2>1, <2>2, <2>3, <2>4, <2>5, <2>6 DEF SessionNext
<1> QED
  BY <1>1, <1>2, PTL DEF SessionSpec

(* The session always has its type. *)
THEOREM SessionTypeCorrect == SessionSpec => []TypeOK
<1>1. IInv => TypeOK
  BY DEF IInv, Good, TypeOK
<1> QED
  BY <1>1, SessionGood, PTL

(* No report makes the bridge slice outside the snapshot or end a window    *)
(* without a round.                                                         *)
THEOREM SessionWindowSound == SessionSpec => []WindowInv
<1>1. IInv => WindowInv
  <2> SUFFICES ASSUME Good(bridge)
               PROVE  WindowSound(bridge)
    BY DEF IInv, WindowInv
  <2> QED
    BY DEF Good
<1> QED
  BY <1>1, SessionGood, PTL

(* A silent mod is sent a window of chunks and a burst of probes at most,   *)
(* whatever the planner does meanwhile.                                     *)
THEOREM SessionSilentBudget == SessionSpec => []SilentBudget
<1>1. IInv => SilentBudget
  <2> SUFFICES ASSUME Good(bridge)
               PROVE  SilentBudget
    BY DEF IInv
  <2>1. /\ Len(bridge.chunksUnheard) + Unsent(bridge) <= WINDOW_CHUNKS
        /\ bridge.probesUnheard + bridge.probesLeft <= PROBE_BURST
    BY DEF Good, BudgetKept
  <2>2. /\ Len(bridge.chunksUnheard) \in Nat /\ Unsent(bridge) \in Nat
        /\ bridge.probesUnheard \in Nat /\ bridge.probesLeft \in Nat
    BY Fields, UnsentNat DEF Good
  <2> QED
    BY <2>1, <2>2, BridgeAssumption DEF SilentBudget
<1> QED
  BY <1>1, SessionGood, PTL

-----------------------------------------------------------------------------
(* No timer resends a chunk. *)

(* Each chunk went out once since the mod was heard, and what a window has  *)
(* still to send has not gone out: no chunk is in a window twice.           *)
Once(s) ==
    /\ \A i, j \in DOMAIN s.chunksUnheard :
         s.chunksUnheard[i] = s.chunksUnheard[j] => i = j
    /\ s.phase = "sending" =>
         /\ \A j, k \in DOMAIN s.window : s.window[j] = s.window[k] => j = k
         /\ \A k \in DOMAIN s.window, i \in DOMAIN s.chunksUnheard :
              k > s.cursor => s.chunksUnheard[i] # Chunk(s.id, s.window[k])

(* A step that sends no chunk and starts no window. *)
Quiet(s, t) ==
    /\ t.chunksUnheard = s.chunksUnheard
    /\ t.phase = "sending" =>
         /\ s.phase = "sending"
         /\ t.id = s.id /\ t.window = s.window /\ t.cursor = s.cursor

LEMMA QuietOnce ==
    ASSUME NEW s, NEW t, Once(s), Quiet(s, t)
    PROVE  Once(t)
BY DEF Once, Quiet

LEMMA QuietTwice ==
    ASSUME NEW s, NEW t, NEW u, Quiet(s, t), Quiet(t, u)
    PROVE  Quiet(s, u)
BY DEF Quiet

LEMMA SendSlotOnce ==
    ASSUME NEW s, Good(s), s.phase = "sending", Once(s)
    PROVE  Once(SendSlot(s))
<1> DEFINE n == Min2(PACE_CHUNKS, Len(s.window) - s.cursor)
           chunks == [k \in 1..n |-> Chunk(s.id, s.window[s.cursor + k])]
           paced == [s EXCEPT !.out = @ \o chunks, !.cursor = @ + n,
                              !.chunksUnheard = @ \o chunks]
           ended == [paced EXCEPT !.out = Append(@, EndOfWindow(s.id, s.round, s.upto)),
                                  !.phase = "awaiting", !.sent = s.upto]
           all == s.chunksUnheard \o chunks
           before == Len(s.chunksUnheard)
<1>1. s \in SessionType /\ WindowSound(s) /\ s.id \in Ids
  BY HeldId DEF Good
<1>2. /\ s.window \in Seq(Nat) /\ s.cursor \in Nat /\ s.cursor < Len(s.window)
      /\ Len(s.window) \in Nat /\ DOMAIN s.window = 1..Len(s.window)
      /\ s.chunksUnheard \in Seq(BridgeDatagrams)
      /\ before \in Nat /\ DOMAIN s.chunksUnheard = 1..before
  BY <1>1, Fields DEF WindowSound
<1>3. n \in Nat /\ s.cursor + n <= Len(s.window)
  BY <1>2, BridgeAssumption DEF Min2
<1>4. SendSlot(s) = IF paced.cursor >= Len(s.window) THEN ended ELSE paced
  BY DEF SendSlot
<1> HIDE DEF n
<1>5. \A k \in 1..n : s.cursor + k \in DOMAIN s.window
  BY <1>2, <1>3
<1>6. chunks \in Seq(BridgeDatagrams) /\ Len(chunks) = n
  <2>1. \A k \in 1..n : Chunk(s.id, s.window[s.cursor + k]) \in BridgeDatagrams
    <3>1. \A k \in 1..n : s.window[s.cursor + k] \in Nat
      BY <1>2, <1>5, Element
    <3> QED
      BY <1>1, <3>1, ChunkType
  <2> QED
    BY <1>3, <2>1
<1>7. \A k \in 1..n : chunks[k] = Chunk(s.id, s.window[s.cursor + k])
  OBVIOUS
<1> HIDE DEF chunks, before
<1>8. /\ all \in Seq(BridgeDatagrams) /\ DOMAIN all = 1..(before + n)
      /\ \A i \in 1..before : all[i] = s.chunksUnheard[i]
      /\ \A i \in (before + 1)..(before + n) : all[i] = chunks[i - before]
  <2>1. /\ all \in Seq(BridgeDatagrams) /\ Len(all) = before + n
        /\ \A i \in 1..(before + n) :
             all[i] = IF i <= before THEN s.chunksUnheard[i] ELSE chunks[i - before]
    BY <1>2, <1>6, ConcatProperties DEF before
  <2>2. DOMAIN all = 1..(before + n)
    BY <2>1
  <2> HIDE DEF all
  <2>3. \A i \in 1..before : i \in 1..(before + n) /\ i <= before
    BY <1>2, <1>3
  <2>4. \A i \in (before + 1)..(before + n) : i \in 1..(before + n) /\ ~(i <= before)
    BY <1>2, <1>3
  <2> QED
    BY <2>1, <2>2, <2>3, <2>4
<1> HIDE DEF all
<1>9. /\ \A j, k \in DOMAIN s.window : s.window[j] = s.window[k] => j = k
      /\ \A k \in DOMAIN s.window, i \in DOMAIN s.chunksUnheard :
           k > s.cursor => s.chunksUnheard[i] # Chunk(s.id, s.window[k])
      /\ \A i, j \in DOMAIN s.chunksUnheard :
           s.chunksUnheard[i] = s.chunksUnheard[j] => i = j
  BY DEF Once
<1>10. \A i \in (before + 1)..(before + n) :
         /\ s.cursor + (i - before) \in DOMAIN s.window
         /\ s.cursor + (i - before) > s.cursor
         /\ s.cursor + (i - before) <= s.cursor + n
         /\ all[i] = Chunk(s.id, s.window[s.cursor + (i - before)])
  <2> TAKE i \in (before + 1)..(before + n)
  <2>1. i - before \in 1..n
    BY <1>2, <1>3
  <2>2. all[i] = Chunk(s.id, s.window[s.cursor + (i - before)])
    BY <1>7, <1>8, <2>1
  <2>3. s.cursor + (i - before) \in DOMAIN s.window
    BY <1>5, <2>1
  <2> QED
    BY <1>2, <1>3, <2>1, <2>2, <2>3
<1>11. \A j, k \in DOMAIN s.window :
         Chunk(s.id, s.window[j]) = Chunk(s.id, s.window[k]) => j = k
  <2>1. \A a, b : Chunk(s.id, a) = Chunk(s.id, b) => a = b
    <3> TAKE a, b
    <3>1. Chunk(s.id, a).index = a /\ Chunk(s.id, b).index = b
      BY DEF Chunk
    <3> QED
      BY <3>1
  <2> QED
    BY <1>9, <2>1
<1>12. ASSUME NEW i \in DOMAIN all, NEW j \in DOMAIN all, all[i] = all[j]
       PROVE  i = j
  <2>0. i \in 1..(before + n) /\ j \in 1..(before + n)
    BY <1>8
  <2>1. CASE i <= before /\ j <= before
    BY <1>2, <1>8, <1>9, <1>12, <2>0, <2>1
  <2>2. CASE i <= before /\ j > before
    <3>1. i \in DOMAIN s.chunksUnheard /\ all[i] = s.chunksUnheard[i]
      BY <1>2, <1>8, <2>0, <2>2
    <3>2. j \in (before + 1)..(before + n)
      BY <1>2, <1>3, <2>0, <2>2
    <3>3. s.chunksUnheard[i] = Chunk(s.id, s.window[s.cursor + (j - before)])
      BY <1>10, <1>12, <3>1, <3>2
    <3> QED
      BY <1>9, <1>10, <3>1, <3>2, <3>3
  <2>3. CASE i > before /\ j <= before
    <3>1. j \in DOMAIN s.chunksUnheard /\ all[j] = s.chunksUnheard[j]
      BY <1>2, <1>8, <2>0, <2>3
    <3>2. i \in (before + 1)..(before + n)
      BY <1>2, <1>3, <2>0, <2>3
    <3>3. s.chunksUnheard[j] = Chunk(s.id, s.window[s.cursor + (i - before)])
      BY <1>10, <1>12, <3>1, <3>2
    <3> QED
      BY <1>9, <1>10, <3>1, <3>2, <3>3
  <2>4. CASE i > before /\ j > before
    <3>1. i \in (before + 1)..(before + n) /\ j \in (before + 1)..(before + n)
      BY <1>2, <1>3, <2>0, <2>4
    <3>2. s.cursor + (i - before) = s.cursor + (j - before)
      BY <1>10, <1>11, <1>12, <3>1
    <3> QED
      BY <1>2, <3>1, <3>2
  <2> QED
    BY <1>2, <2>0, <2>1, <2>2, <2>3, <2>4
<1>13. ASSUME NEW k \in DOMAIN s.window, NEW i \in DOMAIN all, k > s.cursor + n
       PROVE  all[i] # Chunk(s.id, s.window[k])
  <2>0. i \in 1..(before + n) /\ k \in 1..Len(s.window)
    BY <1>2, <1>8
  <2>1. CASE i <= before
    <3>1. i \in DOMAIN s.chunksUnheard /\ all[i] = s.chunksUnheard[i]
      BY <1>2, <1>8, <2>0, <2>1
    <3>2. k > s.cursor
      BY <1>2, <1>3, <1>13, <2>0
    <3> QED
      BY <1>9, <3>1, <3>2
  <2>2. CASE i > before
    <3>1. i \in (before + 1)..(before + n)
      BY <1>2, <1>3, <2>0, <2>2
    <3>2. s.cursor + (i - before) # k
      BY <1>2, <1>3, <1>10, <1>13, <2>0, <3>1
    <3> QED
      BY <1>10, <1>11, <3>1, <3>2
  <2> QED
    BY <1>2, <2>0, <2>1, <2>2
<1>14. /\ paced.chunksUnheard = all /\ paced.window = s.window
       /\ paced.cursor = s.cursor + n /\ paced.id = s.id
       /\ DOMAIN paced = DOMAIN s
  BY <1>1 DEF SessionType, all
<1>15. ended.chunksUnheard = all /\ ended.phase = "awaiting"
  <2>1. {"chunksUnheard", "phase"} \subseteq DOMAIN s
    BY <1>1 DEF SessionType
  <2> HIDE DEF paced
  <2> QED
    BY <1>14, <2>1
<1> HIDE DEF paced, ended
<1>16. Once(paced)
  BY <1>9, <1>12, <1>13, <1>14 DEF Once
<1>17. Once(ended)
  BY <1>12, <1>15 DEF Once
<1> QED
  BY <1>4, <1>16, <1>17

LEMMA SendWindowOnce ==
    ASSUME NEW s, Good(s), s.phase # "idle", s.chunksUnheard = <<>>,
           NEW report \in Ascending,
           \A k \in DOMAIN report : report[k] < s.upto,
           ~EmptyWindow(s, report)
    PROVE  Once(SendWindow(s, report))
<1> DEFINE r == Retried(report)
           f == FreshChunks(s, report)
           new == [k \in 1..f |-> s.upto + k - 1]
           w == r \o new
           b == [s EXCEPT !.window = w, !.cursor = 0, !.upto = @ + f,
                          !.round = (@ + 1) % ROUND_MODULUS]
           t == [b EXCEPT !.phase = "sending"]
<1>1. SendWindow(s, report) = SendSlot(t)
  BY DEF SendWindow, BuildWindow
<1>2. /\ s \in SessionType /\ s.upto \in Nat /\ report \in Seq(Nat)
      /\ s.id \in Ids /\ Count[s.id] \in Nat /\ s.upto <= Count[s.id]
  BY Fields, HeldId DEF Good, WindowSound, Ascending
<1>3. /\ r \in Seq(Nat) /\ Len(r) \in Nat /\ Len(r) <= WINDOW_CHUNKS
      /\ \A k \in DOMAIN r : k \in DOMAIN report /\ r[k] = report[k]
  BY <1>2, RetriedFacts
<1>4. f = Min2(WINDOW_CHUNKS - Len(r), Count[s.id] - s.upto)
  BY DEF FreshChunks
<1>5. Good(t)
  <2>1. [BuildWindow(s, report) EXCEPT !.phase = "sending"] = t
    BY DEF BuildWindow
  <2> HIDE DEF t, b
  <2> QED
    BY <1>2, <2>1, WindowStarted
<1> HIDE DEF r
<1>6. f \in Nat
  BY <1>2, <1>3, <1>4, BridgeAssumption DEF Min2
<1> HIDE DEF f
<1>7. /\ new \in Seq(Nat) /\ Len(new) = f
      /\ \A k \in 1..f : new[k] = s.upto + k - 1
  BY <1>2, <1>6
<1> HIDE DEF new
<1>8. /\ w \in Seq(Nat) /\ Len(w) = Len(r) + f /\ DOMAIN w = 1..(Len(r) + f)
      /\ \A k \in 1..(Len(r) + f) :
           w[k] = IF k <= Len(r) THEN r[k] ELSE new[k - Len(r)]
  <2>1. /\ w \in Seq(Nat) /\ Len(w) = Len(r) + f
        /\ \A k \in 1..(Len(r) + f) :
             w[k] = IF k <= Len(r) THEN r[k] ELSE new[k - Len(r)]
    BY <1>3, <1>7, ConcatProperties
  <2>2. DOMAIN w = 1..(Len(r) + f)
    BY <2>1
  <2> QED
    BY <2>1, <2>2
<1> HIDE DEF w
<1>9. ASSUME NEW j \in DOMAIN w, NEW k \in DOMAIN w, j < k
      PROVE  w[j] < w[k]
  <2>0. /\ j \in Int /\ k \in Int /\ 1 <= j /\ k <= Len(r) + f
        /\ j \in 1..(Len(r) + f) /\ k \in 1..(Len(r) + f)
    BY <1>3, <1>6, <1>8
  <2>1. CASE k <= Len(r)
    <3>1. j \in DOMAIN r /\ k \in DOMAIN r /\ j <= Len(r)
      BY <1>3, <1>9, <2>0, <2>1
    <3>4. w[j] = r[j] /\ w[k] = r[k]
      BY <1>3, <1>8, <2>0, <2>1, <3>1
    <3>2. w[j] = report[j] /\ w[k] = report[k]
      BY <1>3, <3>1, <3>4
    <3> QED
      BY <1>3, <1>9, <3>1, <3>2 DEF Ascending
  <2>2. CASE j <= Len(r) /\ k > Len(r)
    <3>1. j \in DOMAIN r /\ k - Len(r) \in 1..f
      BY <1>3, <1>6, <2>0, <2>2
    <3>4. w[j] = r[j] /\ w[k] = new[k - Len(r)]
      BY <1>3, <1>8, <2>0, <2>2
    <3>5. r[j] = report[j]
      BY <1>3, <3>1
    <3>6. new[k - Len(r)] = s.upto + (k - Len(r)) - 1
      BY <1>7, <3>1
    <3>2. w[j] = report[j] /\ w[k] = s.upto + (k - Len(r)) - 1
      BY <3>4, <3>5, <3>6
    <3>3. report[j] < s.upto /\ report[j] \in Nat
      BY <1>2, <1>3, <3>1, Element
    <3> QED
      BY <1>2, <1>3, <2>0, <2>2, <3>1, <3>2, <3>3
  <2>3. CASE j > Len(r) /\ k > Len(r)
    <3>1. j - Len(r) \in 1..f /\ k - Len(r) \in 1..f
      BY <1>3, <1>6, <2>0, <2>3
    <3>2. w[j] = new[j - Len(r)] /\ w[k] = new[k - Len(r)]
      BY <1>3, <1>8, <2>0, <2>3
    <3>3. w[j] = s.upto + (j - Len(r)) - 1 /\ w[k] = s.upto + (k - Len(r)) - 1
      BY <1>7, <3>1, <3>2
    <3> QED
      BY <1>2, <1>3, <1>9, <2>0, <3>1, <3>3
  <2> QED
    BY <1>3, <1>9, <2>0, <2>1, <2>2, <2>3
<1>10. ASSUME NEW j \in DOMAIN w, NEW k \in DOMAIN w, w[j] = w[k]
       PROVE  j = k
  <2>1. j \in Int /\ k \in Int
    BY <1>3, <1>6, <1>8
  <2>2. w[j] \in Nat /\ w[k] \in Nat
    <3>1. j \in 1..Len(w) /\ k \in 1..Len(w)
      BY <1>8
    <3> QED
      BY <1>8, <3>1, Element
  <2>3. ~(w[j] < w[k]) /\ ~(w[k] < w[j])
    BY <1>10, <2>2
  <2>4. ~(j < k) /\ ~(k < j)
    BY <1>9, <2>3
  <2> QED
    BY <2>1, <2>4
<1>11. t.chunksUnheard = <<>> /\ t.window = w /\ t.phase = "sending"
  BY <1>2 DEF SessionType
<1> HIDE DEF t, b
<1>12. Once(t)
  BY <1>10, <1>11, Nothing DEF Once
<1> QED
  BY <1>1, <1>5, <1>11, <1>12, SendSlotOnce

-----------------------------------------------------------------------------
(* The steps that send no chunk. *)

LEMMA StopQuiet ==
    ASSUME NEW s \in SessionType, NEW phase, phase # "sending"
    PROVE  Quiet(s, Stop(s, phase))
BY DEF Quiet, Stop, SessionType

LEMMA SetDeliveredQuiet ==
    ASSUME NEW s \in SessionType
    PROVE  Quiet(s, SetDelivered(s))
BY DEF Quiet, SetDelivered, Stop, SessionType

LEMMA ProbeTickQuiet ==
    ASSUME NEW s \in SessionType
    PROVE  Quiet(s, ProbeTick(s))
BY DEF Quiet, ProbeTick, SessionType

LEMMA EnterProbingQuiet ==
    ASSUME NEW s \in SessionType
    PROVE  Quiet(s, EnterProbing(s))
<1> DEFINE t == [s EXCEPT !.phase = "probing", !.round = NoRound, !.upto = 0,
                          !.sent = 0, !.window = <<>>, !.cursor = 0,
                          !.previous = NoReport, !.run = 0, !.bursts = 0]
<1>1. t \in SessionType
  BY Nothing DEF SessionType, Phases, NoReport
<1>2. t.phase = "probing" /\ t.chunksUnheard = s.chunksUnheard
  BY DEF SessionType
<1>3. EnterProbing(s) = ProbeTick(t)
  BY DEF EnterProbing
<1> HIDE DEF t
<1>4. ProbeTick(t).phase = "probing"
  BY <1>1, <1>2, ProbeTickSays
<1> QED
  BY <1>1, <1>2, <1>3, <1>4, ProbeTickQuiet DEF Quiet

LEMMA NewTransferQuiet ==
    ASSUME NEW s \in SessionType, NEW id
    PROVE  Quiet(s, NewTransfer(s, id))
BY DEF Quiet, NewTransfer, SessionType

LEMMA NudgeQuiet ==
    ASSUME NEW s \in SessionType
    PROVE  Quiet(s, Nudge(s))
BY DEF Quiet, Nudge, SessionType

LEMMA RefillQuiet ==
    ASSUME NEW s \in SessionType, NEW d
    PROVE  Quiet(s, Refill(s, d))
BY DEF Quiet, Refill, SessionType

LEMMA GiveUpProbingQuiet ==
    ASSUME NEW s \in SessionType, NEW refilledFromEmpty
    PROVE  Quiet(s, GiveUpProbing(s, refilledFromEmpty))
BY DEF Quiet, GiveUpProbing, SessionType

LEMMA FruitlessQuiet ==
    ASSUME NEW s \in SessionType
    PROVE  Quiet(s, Fruitless(s))
BY DEF Quiet, Fruitless, Stop, SessionType

LEMMA OnHelloQuiet ==
    ASSUME NEW s \in SessionType, NEW stored0, NEW assembling
    PROVE  Quiet(s, OnHello(s, stored0, assembling))
<1> DEFINE again == [s EXCEPT !.out = Append(@, EndOfWindow(s.id, s.round, s.upto))]
<1>1. OnHello(s, stored0, assembling) \in {s, SetDelivered(s), EnterProbing(s), again}
  BY DEF OnHello
<1>2. Quiet(s, again)
  BY DEF Quiet, SessionType
<1>3. Quiet(s, s)
  BY DEF Quiet
<1> HIDE DEF again
<1> QED
  BY <1>1, <1>2, <1>3, SetDeliveredQuiet, EnterProbingQuiet

LEMMA OnAckQuiet ==
    ASSUME NEW s \in SessionType, NEW id \in MaybeId
    PROVE  Quiet(s, OnAck(s, id))
<1> DEFINE known == [s EXCEPT !.stored = id]
<1>1. known \in SessionType /\ Quiet(s, known)
  BY DEF Quiet, SessionType
<1>2. OnAck(s, id) \in {s, known, SetDelivered(known)}
  BY DEF OnAck
<1>3. Quiet(s, s)
  BY DEF Quiet
<1> HIDE DEF known
<1> QED
  BY <1>1, <1>2, <1>3, SetDeliveredQuiet, QuietTwice

LEMMA OnRefusalQuiet ==
    ASSUME NEW s \in SessionType, NEW id
    PROVE  Quiet(s, OnRefusal(s, id))
<1>1. Quiet(s, s)
  BY DEF Quiet
<1> QED
  BY <1>1, StopQuiet DEF OnRefusal

-----------------------------------------------------------------------------
(* What a session that has just heard the mod sends of a chunk is its only  *)
(* copy.                                                                    *)

LEMMA OnReadyOnce ==
    ASSUME NEW s, Heard(s), Once(s), NEW id
    PROVE  Once(OnReady(s, id))
<1>1. CASE s.phase = "probing" /\ s.id = id
  <2>1. s.upto = 0 /\ Count[s.id] \in Nat \ {0}
    BY <1>1, HeldId DEF Heard, Good, WindowSound
  <2>2. ~EmptyWindow(s, <<>>)
    BY <2>1 DEF EmptyWindow
  <2>3. <<>> \in Ascending
    BY Nothing DEF Ascending
  <2>4. Once(SendWindow(s, <<>>))
    BY <1>1, <2>2, <2>3, Nothing, SendWindowOnce DEF Heard
  <2> QED
    BY <1>1, <2>4 DEF OnReady
<1>2. CASE ~(s.phase = "probing" /\ s.id = id)
  BY <1>2 DEF OnReady
<1> QED
  BY <1>1, <1>2

LEMMA OnMissingOnce ==
    ASSUME NEW s, Heard(s), Once(s), NEW id, NEW round, NEW report \in Ascending
    PROVE  Once(OnMissing(s, id, round, report))
<1>1. report \in Seq(Nat)
  BY DEF Ascending
<1>2. CASE OnMissing(s, id, round, report) = s
  BY <1>2
<1>3. CASE OnMissing(s, id, round, report) # s
  <2>1. PICK t : /\ Good(t) /\ t.phase \notin {"idle", "sending"}
                 /\ t.chunksUnheard = <<>>
                 /\ \/ OnMissing(s, id, round, report) = t
                    \/ /\ OnMissing(s, id, round, report) = SendWindow(t, report)
                       /\ \A k \in DOMAIN report : report[k] < t.upto
                       /\ ~EmptyWindow(t, report)
    BY <1>1, <1>3, OnMissingCases
  <2>2. Once(t)
    BY <2>1, Nothing DEF Once
  <2> QED
    BY <2>1, <2>2, SendWindowOnce
<1> QED
  BY <1>2, <1>3

LEMMA OnMessageOnce ==
    ASSUME NEW s, Heard(s), Once(s), NEW d \in ModDatagrams, d.type # "V"
    PROVE  Once(OnMessage(s, d))
<1>0. s \in SessionType
  BY DEF Heard, Good
<1>1. CASE d.type = "H"
  <2> DEFINE known == [s EXCEPT !.stored = d.stored]
  <2>1. d.stored \in MaybeId
    BY <1>1 DEF ModDatagrams
  <2>2. known \in SessionType /\ Quiet(s, known)
    BY <1>0, <2>1 DEF Quiet, SessionType
  <2>3. OnMessage(s, d) = OnHello(known, d.stored, d.assembling)
    BY <1>1 DEF OnMessage
  <2> HIDE DEF known
  <2> QED
    BY <2>2, <2>3, OnHelloQuiet, QuietOnce
<1>2. CASE d.type = "R"
  BY <1>2, OnReadyOnce DEF OnMessage
<1>3. CASE d.type = "M"
  <2>1. d.report \in Ascending
    BY <1>3 DEF ModDatagrams
  <2> QED
    BY <1>3, <2>1, OnMissingOnce DEF OnMessage
<1>4. CASE d.type = "A"
  <2>1. d.id \in MaybeId
    BY <1>4 DEF ModDatagrams, MaybeId
  <2>2. OnMessage(s, d) = OnAck(s, d.id)
    BY <1>4 DEF OnMessage
  <2> QED
    BY <1>0, <2>1, <2>2, OnAckQuiet, QuietOnce
<1>5. CASE d.type = "N"
  <2>1. OnMessage(s, d) = OnRefusal(s, d.id)
    BY <1>5 DEF OnMessage
  <2> QED
    BY <1>0, <2>1, OnRefusalQuiet, QuietOnce
<1>6. d.type \in {"H", "R", "M", "A", "N", "V"}
  BY DEF ModDatagrams
<1> QED
  BY <1>1, <1>2, <1>3, <1>4, <1>5, <1>6

LEMMA HandleMessageOnce ==
    ASSUME NEW s, Heard(s), Once(s), NEW d \in ModDatagrams, d.type # "V"
    PROVE  Once(HandleMessage(s, d))
<1> DEFINE refilledFromEmpty == Refills(s, d) /\ s.probesLeft = 0
           t == Refill(s, d)
           u == OnMessage(t, d)
           v == GiveUpProbing(u, refilledFromEmpty)
<1>1. HandleMessage(s, d) = ProbeTick(v)
  BY DEF HandleMessage
<1>2. Heard(t) /\ Once(t)
  BY RefillHeard, RefillQuiet, QuietOnce DEF Heard, Good
<1> HIDE DEF t
<1>3. Good(u) /\ Once(u)
  BY <1>2, OnMessageGood, OnMessageOnce
<1> HIDE DEF u, refilledFromEmpty
<1>4. Good(v) /\ Once(v)
  BY <1>3, GiveUpProbingGood, GiveUpProbingQuiet, QuietOnce DEF Good
<1> HIDE DEF v
<1> QED
  BY <1>1, <1>4, ProbeTickQuiet, QuietOnce DEF Good

LEMMA OtherVersionQuiet ==
    ASSUME NEW s \in SessionType
    PROVE  Quiet(s, OtherVersionHello(s))
<1> DEFINE t == [s EXCEPT !.link = "mismatch", !.stored = NoId]
<1>1. t \in SessionType /\ Quiet(s, t)
  BY DEF Quiet, SessionType, MaybeId
<1>2. OtherVersionHello(s) \in {t, Stop(t, "waiting")}
  BY DEF OtherVersionHello
<1> HIDE DEF t
<1> QED
  BY <1>1, <1>2, StopQuiet, QuietTwice

LEMMA HandleDatagramOnce ==
    ASSUME NEW s, Good(s), Once(s), NEW d \in ModDatagrams
    PROVE  Once(HandleDatagram(s, d))
<1> DEFINE heard == [s EXCEPT !.chunksUnheard = <<>>, !.probesUnheard = 0]
           linked == [heard EXCEPT !.link = "connected"]
<1>1. Heard(heard)
  BY HearingGood
<1>2. HandleDatagram(s, d) = IF d.type = "V"
                             THEN OtherVersionHello(heard)
                             ELSE HandleMessage(linked, d)
  BY DEF HandleDatagram
<1>3. Once(heard)
  <2>1. s \in SessionType
    BY DEF Good
  <2>2. /\ heard.chunksUnheard = <<>> /\ heard.phase = s.phase
        /\ heard.window = s.window
    BY <2>1 DEF SessionType
  <2> HIDE DEF heard
  <2>3. s.phase = "sending" =>
          \A j, k \in DOMAIN s.window : s.window[j] = s.window[k] => j = k
    BY DEF Once
  <2> QED
    BY <2>2, <2>3, Nothing DEF Once
<1> HIDE DEF heard
<1>4. Good(heard) /\ heard \in SessionType
  BY <1>1 DEF Heard, Good
<1>5. /\ linked \in SessionType /\ Quiet(heard, linked)
      /\ linked.phase = heard.phase /\ linked.id = heard.id
      /\ linked.upto = heard.upto /\ linked.round = heard.round
      /\ linked.window = heard.window /\ linked.cursor = heard.cursor
      /\ linked.chunksUnheard = heard.chunksUnheard
      /\ linked.probesUnheard = heard.probesUnheard
      /\ linked.probesLeft = heard.probesLeft
  BY <1>4 DEF SessionType, Quiet
<1> HIDE DEF linked
<1>6. Heard(linked) /\ Once(linked)
  BY <1>1, <1>3, <1>4, <1>5, Budget, SameWindow, QuietOnce DEF Heard
<1> QED
  BY <1>2, <1>3, <1>4, <1>6, OtherVersionQuiet, QuietOnce, HandleMessageOnce

LEMMA ReceiveSnapshotQuiet ==
    ASSUME NEW s, Good(s), NEW id \in Ids
    PROVE  Quiet(s, ReceiveSnapshot(s, id))
<1> DEFINE announced == [s EXCEPT !.newest = id]
           nudged == Nudge(announced)
           fresh == NewTransfer(nudged, id)
<1>1. s \in SessionType
  BY DEF Good
<1>2. Good(announced) /\ Quiet(s, announced)
  <2>1. announced = Announce(s, id)
    BY DEF Announce
  <2>2. Quiet(s, announced)
    BY <1>1 DEF Quiet, SessionType
  <2> QED
    BY <2>1, <2>2, AnnounceGood DEF MaybeId
<1>3. ReceiveSnapshot(s, id) \in
        {nudged, SetDelivered(fresh), EnterProbing(fresh), fresh}
  BY DEF ReceiveSnapshot
<1> HIDE DEF announced
<1>4. Good(nudged) /\ Quiet(s, nudged)
  BY <1>2, NudgeGood, NudgeQuiet, QuietTwice DEF Good
<1> HIDE DEF nudged
<1>5. Good(fresh) /\ Quiet(s, fresh)
  BY <1>4, NewTransferGood, NewTransferQuiet, QuietTwice DEF Good
<1> HIDE DEF fresh
<1>6. Quiet(s, SetDelivered(fresh)) /\ Quiet(s, EnterProbing(fresh))
  BY <1>5, SetDeliveredQuiet, EnterProbingQuiet, QuietTwice DEF Good
<1> QED
  BY <1>3, <1>4, <1>5, <1>6

LEMMA HandleTimeoutOnce ==
    ASSUME NEW s, Good(s), Once(s), NEW pingDue, NEW slotDue
    PROVE  Once(HandleTimeout(s, pingDue, slotDue))
<1> DEFINE pinged == IF pingDue
                     THEN [s EXCEPT !.out = Append(@, Ping(s.newest))]
                     ELSE s
<1>1. HandleTimeout(s, pingDue, slotDue) =
        CASE s.phase = "sending" /\ slotDue -> SendSlot(pinged)
          [] s.phase = "probing" -> ProbeTick(pinged)
          [] OTHER -> pinged
  BY DEF HandleTimeout
<1>2. Good(pinged) /\ pinged.phase = s.phase
  <2>1. /\ Good([s EXCEPT !.out = Append(@, Ping(s.newest))])
        /\ [s EXCEPT !.out = Append(@, Ping(s.newest))].phase = s.phase
    <3>1. /\ s.nudgeDue \in BOOLEAN
          /\ [s EXCEPT !.out = Append(@, Ping(s.newest)), !.nudgeDue = s.nudgeDue]
               = [s EXCEPT !.out = Append(@, Ping(s.newest))]
      BY DEF Good, SessionType
    <3> QED
      BY <3>1, PingedGood
  <2> QED
    BY <2>1
<1>3. Quiet(s, pinged)
  BY DEF Good, SessionType, Quiet
<1> HIDE DEF pinged
<1>4. Once(pinged)
  BY <1>3, QuietOnce
<1>5. s.phase = "sending" => Once(SendSlot(pinged))
  BY <1>2, <1>4, SendSlotOnce
<1>6. Once(ProbeTick(pinged))
  BY <1>2, <1>4, ProbeTickQuiet, QuietOnce DEF Good
<1> QED
  BY <1>1, <1>4, <1>5, <1>6

(* "No timer resends a chunk": a chunk goes out again only after the mod    *)
(* was heard.  Inductive with what a window still has to send, and because  *)
(* a report names no chunk twice.                                           *)
THEOREM SessionNoTimerResends == SessionSpec => []NoTimerResends
<1>1. SessionInit => Once(bridge)
  BY Nothing DEF SessionInit, NewSession, Once
<1>2. IInv /\ Once(bridge) /\ [SessionNext]_bridge => Once(bridge)'
  <2> SUFFICES ASSUME Good(bridge), Once(bridge), [SessionNext]_bridge
               PROVE  Once(bridge')
    BY DEF IInv, Once
  <2>0. /\ Good(Flushed(bridge)) /\ Flushed(bridge) \in SessionType
        /\ Once(Flushed(bridge))
    <3>1. bridge \in SessionType
      BY DEF Good
    <3>2. Quiet(bridge, Flushed(bridge))
      BY <3>1 DEF Quiet, Flushed, SessionType
    <3> QED
      BY <3>2, FlushedGood, QuietOnce DEF Good
  <2>1. ASSUME NEW id \in Ids, TakeSnapshot(id)
        PROVE  Once(bridge')
    BY <2>0, <2>1, ReceiveSnapshotQuiet, QuietOnce DEF TakeSnapshot
  <2>2. ASSUME NEW id \in Ids, TakeAnnounce(id)
        PROVE  Once(bridge')
    <3>1. Quiet(Flushed(bridge), Announce(Flushed(bridge), id))
      BY <2>0 DEF Quiet, Announce, SessionType
    <3> QED
      BY <2>0, <2>2, <3>1, QuietOnce DEF TakeAnnounce
  <2>3. ASSUME NEW d \in Inputs, Hear(d)
        PROVE  Once(bridge')
    BY <2>0, <2>3, InputsAssumption, HandleDatagramOnce DEF Hear
  <2>4. ASSUME NEW pingDue \in BOOLEAN, NEW slotDue \in BOOLEAN,
               Timeout(pingDue, slotDue)
        PROVE  Once(bridge')
    BY <2>0, <2>4, HandleTimeoutOnce DEF Timeout
  <2>5. CASE TimePasses
    <3>1. /\ Quiet(Flushed(bridge), ProbeAges(Flushed(bridge)))
          /\ Quiet(Flushed(bridge), TurnsQuiet(Flushed(bridge)))
          /\ Quiet(Flushed(bridge), NudgeComesDue(Flushed(bridge)))
      BY <2>0 DEF Quiet, ProbeAges, TurnsQuiet, NudgeComesDue, SessionType
    <3> QED
      BY <2>0, <2>5, <3>1, QuietOnce DEF TimePasses
  <2>6. CASE UNCHANGED bridge
    BY <2>6
  <2> QED
    BY <2>1, <2>2, <2>3, <2>4, <2>5, <2>6 DEF SessionNext
<1>3. Once(bridge) => NoTimerResends
  BY DEF Once, NoTimerResends
<1> QED
  BY <1>1, <1>2, <1>3, SessionGood, PTL DEF SessionSpec

-----------------------------------------------------------------------------
(* A transfer that is over. *)

Over(s) == s.phase \in {"rejected", "failed"}

LEMMA OverHears ==
    ASSUME NEW s \in SessionType, Over(s), s.out = <<>>,
           NEW d \in ModDatagrams,
           NEW t, t = HandleDatagram(s, d)
    PROVE  /\ t.out = <<>>
           /\ t.phase = s.phase \/ (t.phase = "delivered" /\ t.stored = t.id)
<1> DEFINE heard == [s EXCEPT !.chunksUnheard = <<>>, !.probesUnheard = 0]
           linked == [heard EXCEPT !.link = "connected"]
           u == Refill(linked, d)
           v == OnMessage(u, d)
           empty == Refills(linked, d) /\ linked.probesLeft = 0
<1>1. t = IF d.type = "V" THEN OtherVersionHello(heard)
                          ELSE ProbeTick(GiveUpProbing(v, empty))
  BY DEF HandleDatagram, HandleMessage
<1>2. heard \in SessionType /\ Over(heard) /\ heard.out = <<>> /\ heard.phase = s.phase
  BY Nothing DEF SessionType, Over
<1> HIDE DEF heard
<1>3. CASE d.type = "V"
  <2>1. t = [heard EXCEPT !.link = "mismatch", !.stored = NoId]
    BY <1>1, <1>2, <1>3 DEF OtherVersionHello, Over, InProgress, SessionType
  <2> QED
    BY <1>2, <2>1 DEF SessionType
<1>4. CASE d.type # "V"
  <2>1. u \in SessionType /\ Over(u) /\ u.out = <<>> /\ u.phase = s.phase
    <3>1. /\ linked \in SessionType /\ Over(linked) /\ linked.out = <<>>
          /\ linked.phase = s.phase
      BY <1>2 DEF SessionType, Over
    <3> HIDE DEF linked
    <3> QED
      BY <3>1, BridgeAssumption DEF Refill, SessionType, Over
  <2> HIDE DEF u
  <2>2. /\ v.out = <<>>
        /\ v.phase = s.phase \/ (v.phase = "delivered" /\ v.stored = v.id)
    <3>1. CASE d.type = "H"
      <4> DEFINE known == [u EXCEPT !.stored = d.stored]
      <4>1. v = IF d.stored = known.id THEN SetDelivered(known) ELSE known
        BY <2>1, <3>1 DEF OnMessage, OnHello, Over, SessionType
      <4>2. SetDelivered(known) = [known EXCEPT !.window = <<>>, !.cursor = 0,
                                      !.phase = "delivered", !.sent = Count[known.id]]
        BY DEF SetDelivered, Stop
      <4>3. /\ DOMAIN known = DOMAIN u /\ known.out = <<>> /\ known.phase = s.phase
            /\ known.stored = d.stored
            /\ {"id", "stored", "phase", "out"} \subseteq DOMAIN known
        BY <2>1 DEF SessionType
      <4> HIDE DEF known
      <4>4. /\ SetDelivered(known).out = <<>>
            /\ SetDelivered(known).phase = "delivered"
            /\ SetDelivered(known).stored = known.stored
            /\ SetDelivered(known).id = known.id
        BY <4>2, <4>3
      <4> QED
        BY <4>1, <4>3, <4>4
    <3>2. CASE d.type \in {"R", "M", "N"}
      <4>1. v = u
        BY <2>1, <3>2 DEF OnMessage, OnReady, OnMissing, OnRefusal, InProgress, Over
      <4> QED
        BY <2>1, <4>1
    <3>3. CASE d.type = "A"
      <4>1. v \in {u, [u EXCEPT !.stored = d.id]}
        BY <2>1, <3>3 DEF OnMessage, OnAck, InProgress, Over, SessionType
      <4> QED
        BY <2>1, <4>1 DEF SessionType
    <3>4. d.type \in {"H", "R", "M", "A", "N", "V"}
      BY DEF ModDatagrams
    <3> QED
      BY <1>4, <3>1, <3>2, <3>3, <3>4
  <2>3. v.phase # "probing"
    BY <2>1, <2>2 DEF Over
  <2> HIDE DEF v, empty
  <2>4. t = v
    BY <1>1, <1>4, <2>3 DEF GiveUpProbing, ProbeTick
  <2> QED
    BY <2>2, <2>4
<1> QED
  BY <1>3, <1>4

(* Nothing but pings is sent for a refused or failed transfer, and only a   *)
(* snapshot message, or a mod that stores it after all, ends it.            *)
THEOREM SessionOverIsOver == SessionSpec => OverIsOver
<1> DEFINE Stays ==
       \/ bridge'.phase = bridge.phase /\ ~Speaks(bridge')
       \/ bridge'.phase = "delivered" /\ bridge'.stored = bridge'.id
            /\ ~Speaks(bridge')
<1>1. ASSUME Good(bridge), [SessionNext]_bridge, Over(bridge)
      PROVE  Stays \/ (\E id \in Ids : TakeSnapshot(id)) \/ UNCHANGED bridge
  <2>0. /\ Flushed(bridge) \in SessionType /\ Flushed(bridge).out = <<>>
        /\ Flushed(bridge).phase = bridge.phase
    BY <1>1, Nothing DEF Good, Flushed, SessionType
  <2>1. ASSUME NEW id \in Ids, TakeAnnounce(id)
        PROVE  Stays
    <3>1. bridge'.out = <<>> /\ bridge'.phase = bridge.phase
      BY <2>0, <2>1 DEF TakeAnnounce, Announce, SessionType
    <3> QED
      BY <3>1, Nothing DEF Speaks
  <2>2. ASSUME NEW d \in Inputs, Hear(d)
        PROVE  Stays
    <3>1. bridge' = HandleDatagram(Flushed(bridge), d) /\ d \in ModDatagrams
      BY <2>2, InputsAssumption DEF Hear
    <3>2. Over(Flushed(bridge))
      BY <1>1, <2>0 DEF Over
    <3>3. /\ bridge'.out = <<>>
          /\ \/ bridge'.phase = bridge.phase
             \/ bridge'.phase = "delivered" /\ bridge'.stored = bridge'.id
      BY <2>0, <3>1, <3>2, OverHears
    <3> QED
      BY <3>3, Nothing DEF Speaks
  <2>3. ASSUME NEW pingDue \in BOOLEAN, NEW slotDue \in BOOLEAN,
               Timeout(pingDue, slotDue)
        PROVE  Stays
    <3> DEFINE quiet == Flushed(bridge)
               ping == Ping(quiet.newest)
               pinged == [quiet EXCEPT !.out = Append(@, ping)]
    <3>1. bridge' \in {quiet, pinged}
      BY <1>1, <2>0, <2>3 DEF Timeout, HandleTimeout, Over
    <3>2. quiet.out = <<>> /\ quiet.phase = bridge.phase /\ quiet \in SessionType
      BY <2>0
    <3> HIDE DEF quiet, ping
    <3>3. pinged.out = <<ping>> /\ pinged.phase = bridge.phase
      <4>1. Append(<<>>, ping) = <<ping>>
        OBVIOUS
      <4> QED
        BY <3>2, <4>1 DEF SessionType
    <3>4. ping.type = "P"
      BY DEF ping, Ping
    <3> HIDE DEF pinged
    <3>5. ~Speaks(bridge')
      BY <3>1, <3>2, <3>3, <3>4, Nothing DEF Speaks
    <3> QED
      BY <3>1, <3>2, <3>3, <3>5
  <2>4. CASE TimePasses
    <3>1. bridge'.out = <<>> /\ bridge'.phase = bridge.phase
      BY <2>0, <2>4 DEF TimePasses, ProbeAges, TurnsQuiet, NudgeComesDue, SessionType
    <3> QED
      BY <3>1, Nothing DEF Speaks
  <2> QED
    BY <1>1, <2>1, <2>2, <2>3, <2>4 DEF SessionNext
<1>2. IInv /\ [SessionNext]_bridge =>
        [ bridge.phase \in {"rejected", "failed"} =>
            \/ bridge'.phase = bridge.phase /\ ~Speaks(bridge')
            \/ bridge'.phase = "delivered" /\ bridge'.stored = bridge'.id
                 /\ ~Speaks(bridge')
            \/ \E id \in Ids : TakeSnapshot(id) ]_bridge
  BY <1>1 DEF IInv, Over
<1> QED
  BY <1>2, SessionGood, PTL DEF SessionSpec, OverIsOver

-----------------------------------------------------------------------------
(* A stale report. *)

(* A report that is not the one waited for leaves the transfer where it is: *)
(* at most it is probed for once more, or given up.                         *)
LEMMA StaleReport ==
    ASSUME NEW s \in SessionType, s.out = <<>>,
           NEW d, d.type = "M",
           ~(s.phase = "awaiting" /\ d.id = s.id /\ d.round = s.round),
           NEW t, t = HandleDatagram(s, d)
    PROVE  /\ Progress(t) = Progress(s)
           /\ t.phase \in {s.phase, "failed"}
           /\ t.out = <<>> \/ t.out = <<Probe(s.id)>>
<1> DEFINE heard == [s EXCEPT !.chunksUnheard = <<>>, !.probesUnheard = 0]
           linked == [heard EXCEPT !.link = "connected"]
           u == Refill(linked, d)
           v == OnMessage(u, d)
           empty == Refills(linked, d) /\ linked.probesLeft = 0
           w == GiveUpProbing(v, empty)
<1>1. t = ProbeTick(w)
  BY DEF HandleDatagram, HandleMessage
<1>2. /\ linked \in SessionType /\ linked.out = <<>>
      /\ linked.phase = s.phase /\ Progress(linked) = Progress(s)
  <2>1. /\ heard \in SessionType /\ heard.out = <<>>
        /\ heard.phase = s.phase /\ Progress(heard) = Progress(s)
    BY Nothing DEF SessionType, Progress
  <2> HIDE DEF heard
  <2> QED
    BY <2>1 DEF SessionType, Progress
<1> HIDE DEF linked
<1>3. /\ u \in SessionType /\ u.out = <<>>
      /\ u.phase = s.phase /\ Progress(u) = Progress(s)
  BY <1>2, BridgeAssumption DEF Refill, SessionType, Progress
<1> HIDE DEF u
<1>4. u.id = s.id /\ u.round = s.round
  BY <1>3 DEF Progress
<1>5. v = u
  BY <1>3, <1>4 DEF OnMessage, OnMissing
<1> HIDE DEF v, empty
<1>6. /\ w \in SessionType /\ w.out = <<>>
      /\ w.phase \in {s.phase, "failed"} /\ Progress(w) = Progress(s)
  <2>1. w \in {u, [u EXCEPT !.phase = "failed"]}
    BY <1>5 DEF GiveUpProbing
  <2>2. /\ [u EXCEPT !.phase = "failed"] \in SessionType
        /\ [u EXCEPT !.phase = "failed"].out = <<>>
        /\ [u EXCEPT !.phase = "failed"].phase = "failed"
        /\ Progress([u EXCEPT !.phase = "failed"]) = Progress(u)
    BY <1>3 DEF SessionType, Progress, Phases
  <2> HIDE DEF w
  <2> QED
    BY <1>3, <2>1, <2>2
<1> HIDE DEF w
<1>7. w.id = s.id
  BY <1>6 DEF Progress
<1>8. ProbeTick(w).phase = w.phase /\ Progress(ProbeTick(w)) = Progress(w)
  BY <1>6 DEF ProbeTick, SessionType, Progress
<1>9. ProbeTick(w).out = <<>> \/ ProbeTick(w).out = <<Probe(s.id)>>
  <2>1. Append(<<>>, Probe(s.id)) = <<Probe(s.id)>>
    OBVIOUS
  <2>2. ProbeTick(w).out = w.out \/ ProbeTick(w).out = Append(w.out, Probe(w.id))
    BY <1>6 DEF ProbeTick, SessionType
  <2> QED
    BY <1>6, <1>7, <2>1, <2>2
<1> QED
  BY <1>1, <1>6, <1>8, <1>9

(* A stale report never moves a transfer, sends a chunk or the end of a     *)
(* window, or counts as the report the next one is compared with.           *)
THEOREM SessionStaleReportsIgnored == SessionSpec => StaleReportsIgnored
<1>1. ASSUME Good(bridge), NEW d \in Inputs, Stale(d), Hear(d)
      PROVE  ~Moves
  <2>0. /\ Flushed(bridge) \in SessionType /\ Flushed(bridge).out = <<>>
        /\ Flushed(bridge).phase = bridge.phase
        /\ Progress(Flushed(bridge)) = Progress(bridge)
    BY <1>1, Nothing DEF Good, Flushed, SessionType, Progress
  <2>1. Flushed(bridge).id = bridge.id /\ Flushed(bridge).round = bridge.round
    BY <2>0 DEF Progress
  <2>2. d.type = "M" /\ bridge' = HandleDatagram(Flushed(bridge), d)
    BY <1>1 DEF Stale, Hear
  <2>3. ~(/\ Flushed(bridge).phase = "awaiting"
          /\ d.id = Flushed(bridge).id /\ d.round = Flushed(bridge).round)
    BY <1>1, <2>0, <2>1 DEF Stale
  <2>4. /\ Progress(bridge') = Progress(bridge)
        /\ bridge'.phase \in {bridge.phase, "failed"}
        /\ \/ bridge'.out = <<>>
           \/ bridge'.out = <<Probe(Flushed(bridge).id)>>
    BY <2>0, <2>2, <2>3, StaleReport
  <2>5. \A k \in DOMAIN bridge'.out : bridge'.out[k].type \notin {"C", "E"}
    <3>1. Probe(Flushed(bridge).id).type = "W"
      BY DEF Probe
    <3> QED
      BY <2>4, <3>1, Nothing
  <2> QED
    BY <2>4, <2>5 DEF Moves
<1>2. IInv => [Moves => ~ \E d \in Inputs : Stale(d) /\ Hear(d)]_bridge
  BY <1>1 DEF IInv
<1> QED
  BY <1>2, SessionGood, PTL DEF StaleReportsIgnored
=============================================================================
