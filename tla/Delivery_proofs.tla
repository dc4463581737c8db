---------------------------- MODULE Delivery_proofs ----------------------------
(* The transfer protocol implements the mailbox, for every set of snapshots *)
(* and verdicts, every window, budget and limit, and any number of losses,  *)
(* loads, saves, restarts and messages in flight; and what the game's       *)
(* socket has to hold is bounded.                                           *)
EXTENDS Delivery, Bridge_proofs, ModReceiver_proofs, SequenceTheorems

-----------------------------------------------------------------------------
(* The inductive invariant. *)

(* What the bridge may tell the planner is stored: what it heard last, and  *)
(* a snapshot it has called delivered.                                      *)
Claims(s) == {s.stored} \cup (IF s.phase = "delivered" THEN {s.id} ELSE {})

Known(gone, kept) == gone \cup {kept, NoId}

Superseded(id, next, gone) == id \in gone \cup {next, NoId}

(* Answers on their way: each was true when it was sent, and a hello that   *)
(* contradicts what the bridge was told, or is told before it, comes from a *)
(* mod that has let the other snapshot go.                                  *)
Ordered(queue, told, gone, kept) ==
    /\ told \subseteq Known(gone, kept)
    /\ \A i \in DOMAIN queue :
         /\ Claim(queue[i]) \in Known(gone, kept)
         /\ queue[i].type = "N" => "refuse" \in Verdicts[queue[i].id]
         /\ queue[i].type = "H" =>
              /\ \A id \in told : Superseded(id, queue[i].stored, gone)
              /\ \A j \in 1..(i - 1) : Superseded(Claim(queue[j]), queue[i].stored, gone)

SlotHonest ==
    /\ slot \in ModDatagrams \cup {NoAnswer}
    /\ slot.type = "A" => slot.id = stored
    /\ slot.type = "H" => slot.stored = stored
    /\ slot.type = "N" => "refuse" \in Verdicts[slot.id]

ModType ==
    /\ stored \in MaybeId /\ saved \in MaybeId /\ newest \in MaybeId
    /\ assembling \in [id: MaybeId, held: SUBSET Nat]
    /\ dropped \in SUBSET Ids

DInv ==
    /\ Good(bridge)
    /\ toMod \in Seq(BridgeDatagrams)
    /\ toBridge \in Seq(ModDatagrams)
    /\ batch \in 0..Len(toMod)
    /\ ModType
    /\ SlotHonest
    /\ saved \in Known(dropped, stored)
    /\ Ordered(toBridge, Claims(bridge), dropped, stored)

-----------------------------------------------------------------------------
(* The queue of answers. *)

LEMMA ClaimMaybe ==
    ASSUME NEW d \in ModDatagrams
    PROVE  Claim(d) \in MaybeId
BY DEF ModDatagrams, Claim, MaybeId

(* An answer heard or lost leaves the rest in order. *)
LEMMA OrderedWithout ==
    ASSUME NEW queue \in Seq(ModDatagrams), NEW told, NEW gone, NEW kept,
           Ordered(queue, told, gone, kept),
           NEW k \in 1..Len(queue)
    PROVE  /\ RemoveAt(queue, k) \in Seq(ModDatagrams)
           /\ Ordered(RemoveAt(queue, k), told, gone, kept)
<1> DEFINE rest == RemoveAt(queue, k)
<1>1. Len(queue) \in Nat /\ DOMAIN queue = 1..Len(queue)
  OBVIOUS
<1>2. /\ SubSeq(queue, 1, k - 1) \in Seq(ModDatagrams)
      /\ Len(SubSeq(queue, 1, k - 1)) = k - 1
      /\ \A i \in 1..(k - 1) : SubSeq(queue, 1, k - 1)[i] = queue[i]
  OBVIOUS
<1>3. /\ SubSeq(queue, k + 1, Len(queue)) \in Seq(ModDatagrams)
      /\ Len(SubSeq(queue, k + 1, Len(queue))) = Len(queue) - k
      /\ \A i \in 1..(Len(queue) - k) :
           SubSeq(queue, k + 1, Len(queue))[i] = queue[k + i]
  <2>1. k + 1 \in Int /\ Len(queue) \in Int
    BY <1>1
  <2>2. \A i \in (k + 1)..Len(queue) : queue[i] \in ModDatagrams
    BY <1>1
  <2>3. /\ SubSeq(queue, k + 1, Len(queue)) \in Seq(ModDatagrams)
        /\ Len(SubSeq(queue, k + 1, Len(queue))) =
             IF k + 1 <= Len(queue) THEN Len(queue) - (k + 1) + 1 ELSE 0
        /\ \A i \in 1..(Len(queue) - (k + 1) + 1) :
             SubSeq(queue, k + 1, Len(queue))[i] = queue[(k + 1) + i - 1]
    BY <2>1, <2>2, SubSeqProperties
  <2>4. Len(queue) - (k + 1) + 1 = Len(queue) - k
    BY <1>1
  <2>5. \A i \in 1..(Len(queue) - k) : (k + 1) + i - 1 = k + i
    BY <1>1
  <2>6. k + 1 <= Len(queue) \/ Len(queue) - k = 0
    <3>1. k \in Int /\ k <= Len(queue)
      BY <1>1
    <3> QED
      BY <2>1, <3>1
  <2> QED
    BY <2>3, <2>4, <2>5, <2>6
<1>4. /\ rest \in Seq(ModDatagrams) /\ Len(rest) = Len(queue) - 1
      /\ \A i \in 1..Len(rest) :
           rest[i] = queue[IF i < k THEN i ELSE i + 1]
  <2> DEFINE a == SubSeq(queue, 1, k - 1)
             b == SubSeq(queue, k + 1, Len(queue))
  <2>1. rest = a \o b
    BY DEF RemoveAt
  <2> HIDE DEF a, b, rest
  <2>2. /\ a \in Seq(ModDatagrams) /\ b \in Seq(ModDatagrams)
        /\ Len(a) = k - 1 /\ Len(b) = Len(queue) - k
        /\ \A i \in 1..(k - 1) : a[i] = queue[i]
        /\ \A i \in 1..(Len(queue) - k) : b[i] = queue[k + i]
    BY <1>2, <1>3 DEF a, b
  <2>3. rest \in Seq(ModDatagrams) /\ Len(rest) = Len(queue) - 1
    <3>1. a \o b \in Seq(ModDatagrams) /\ Len(a \o b) = Len(a) + Len(b)
      BY <2>2, Concatenation
    <3> QED
      BY <1>1, <2>1, <2>2, <3>1
  <2>4. ASSUME NEW i \in 1..Len(rest)
        PROVE  rest[i] = queue[IF i < k THEN i ELSE i + 1]
    <3>1. CASE i < k
      <4>1. rest[i] = a[i]
        BY <2>1, <2>2, <2>3, <3>1
      <4> QED
        BY <2>2, <3>1, <4>1
    <3>2. CASE i >= k
      <4>1. rest[i] = b[i - (k - 1)]
        BY <1>1, <2>1, <2>2, <2>3, <3>2
      <4>2. i - (k - 1) \in 1..(Len(queue) - k) /\ k + (i - (k - 1)) = i + 1
        BY <1>1, <2>3, <3>2
      <4> QED
        BY <2>2, <3>2, <4>1, <4>2
    <3> QED
      BY <3>1, <3>2
  <2> QED
    BY <2>3, <2>4
<1> HIDE DEF rest
<1>5. ASSUME NEW i \in DOMAIN rest
      PROVE  /\ Claim(rest[i]) \in Known(gone, kept)
             /\ rest[i].type = "N" => "refuse" \in Verdicts[rest[i].id]
             /\ rest[i].type = "H" =>
                  /\ \A id \in told : Superseded(id, rest[i].stored, gone)
                  /\ \A j \in 1..(i - 1) : Superseded(Claim(rest[j]), rest[i].stored, gone)
  <2> DEFINE f(n) == IF n < k THEN n ELSE n + 1
  <2>1. i \in 1..Len(rest) /\ f(i) \in DOMAIN queue /\ rest[i] = queue[f(i)]
    BY <1>1, <1>4
  <2>2. \A j \in 1..(i - 1) : f(j) \in 1..(f(i) - 1) /\ rest[j] = queue[f(j)]
    BY <1>1, <1>4, <2>1
  <2> HIDE DEF f
  <2> QED
    BY <2>1, <2>2 DEF Ordered
<1>6. Ordered(rest, told, gone, kept)
  BY <1>5 DEF Ordered
<1> QED
  BY <1>4, <1>6 DEF rest

(* Hearing the first answer tells the bridge no more than it claims. *)
LEMMA OrderedHeard ==
    ASSUME NEW queue \in Seq(ModDatagrams), queue # <<>>,
           NEW told, NEW gone, NEW kept,
           Ordered(queue, told, gone, kept),
           NEW now \in SUBSET (told \cup {Claim(Head(queue)), NoId})
    PROVE  /\ Tail(queue) \in Seq(ModDatagrams)
           /\ Ordered(Tail(queue), now, gone, kept)
<1>1. /\ Len(queue) \in Nat \ {0} /\ DOMAIN queue = 1..Len(queue)
      /\ Head(queue) = queue[1]
  OBVIOUS
<1> DEFINE rest == Tail(queue)
<1>2. /\ rest \in Seq(ModDatagrams) /\ Len(rest) = Len(queue) - 1
      /\ DOMAIN rest = 1..Len(rest)
      /\ \A i \in 1..Len(rest) : rest[i] = queue[i + 1]
  OBVIOUS
<1> HIDE DEF rest
<1>3. now \subseteq Known(gone, kept)
  BY <1>1 DEF Ordered, Known
<1>4. ASSUME NEW i \in DOMAIN rest
      PROVE  /\ Claim(rest[i]) \in Known(gone, kept)
             /\ rest[i].type = "N" => "refuse" \in Verdicts[rest[i].id]
             /\ rest[i].type = "H" =>
                  /\ \A id \in now : Superseded(id, rest[i].stored, gone)
                  /\ \A j \in 1..(i - 1) : Superseded(Claim(rest[j]), rest[i].stored, gone)
  <2>1. i + 1 \in DOMAIN queue /\ rest[i] = queue[i + 1] /\ 1 \in 1..((i + 1) - 1)
    BY <1>1, <1>2
  <2>2. \A j \in 1..(i - 1) : j + 1 \in 1..((i + 1) - 1) /\ rest[j] = queue[j + 1]
    BY <1>1, <1>2, <2>1
  <2>3. rest[i].type = "H" =>
          /\ \A id \in told : Superseded(id, rest[i].stored, gone)
          /\ \A j \in 1..((i + 1) - 1) : Superseded(Claim(queue[j]), rest[i].stored, gone)
    BY <2>1 DEF Ordered
  <2>4. rest[i].type = "H" => \A id \in now : Superseded(id, rest[i].stored, gone)
    BY <1>1, <2>1, <2>3 DEF Superseded
  <2>5. rest[i].type = "H" =>
          \A j \in 1..(i - 1) : Superseded(Claim(rest[j]), rest[i].stored, gone)
    BY <2>2, <2>3
  <2> QED
    BY <2>1, <2>4, <2>5 DEF Ordered
<1>5. Ordered(rest, now, gone, kept)
  BY <1>3, <1>4 DEF Ordered
<1> QED
  BY <1>2, <1>5 DEF rest

(* An honest answer may join: whatever was claimed so far, a hello claims   *)
(* what is stored now, and the mod has let go of all the others.            *)
LEMMA OrderedJoined ==
    ASSUME NEW queue \in Seq(ModDatagrams), NEW told, Ordered(queue, told, dropped, stored),
           SlotHonest, slot # NoAnswer
    PROVE  /\ Append(queue, slot) \in Seq(ModDatagrams)
           /\ Ordered(Append(queue, slot), told, dropped, stored)
<1> DEFINE longer == Append(queue, slot)
           n == Len(queue) + 1
<1>1. slot \in ModDatagrams /\ Claim(slot) \in Known(dropped, stored)
  BY DEF SlotHonest, Claim, Known
<1>2. /\ Len(queue) \in Nat /\ DOMAIN queue = 1..Len(queue)
      /\ longer \in Seq(ModDatagrams) /\ DOMAIN longer = 1..n
      /\ \A i \in 1..Len(queue) : longer[i] = queue[i]
      /\ longer[n] = slot
  BY <1>1
<1> HIDE DEF longer
<1>3. \A i \in 1..Len(queue) : Claim(queue[i]) \in Known(dropped, stored)
  BY <1>2 DEF Ordered
<1>4. ASSUME NEW i \in DOMAIN longer
      PROVE  /\ Claim(longer[i]) \in Known(dropped, stored)
             /\ longer[i].type = "N" => "refuse" \in Verdicts[longer[i].id]
             /\ longer[i].type = "H" =>
                  /\ \A id \in told : Superseded(id, longer[i].stored, dropped)
                  /\ \A j \in 1..(i - 1) :
                       Superseded(Claim(longer[j]), longer[i].stored, dropped)
  <2>1. CASE i \in 1..Len(queue)
    <3>1. \A j \in 1..(i - 1) : longer[j] = queue[j]
      BY <1>2, <2>1
    <3> QED
      BY <1>2, <2>1, <3>1 DEF Ordered
  <2>2. CASE i = n
    <3>1. \A j \in 1..(i - 1) : Claim(longer[j]) \in Known(dropped, stored)
      BY <1>2, <1>3, <2>2
    <3>2. told \subseteq Known(dropped, stored)
      BY DEF Ordered
    <3>3. slot.type = "H" => \A id \in Known(dropped, stored) : Superseded(id, slot.stored, dropped)
      BY DEF SlotHonest, Known, Superseded
    <3> QED
      BY <1>1, <1>2, <2>2, <3>1, <3>2, <3>3 DEF SlotHonest
  <2> QED
    BY <1>2, <2>1, <2>2
<1>5. Ordered(longer, told, dropped, stored)
  BY <1>4 DEF Ordered
<1> QED
  BY <1>2, <1>5 DEF longer

(* What the mod lets go of is remembered, so nothing sent becomes wrong. *)
LEMMA OrderedLater ==
    ASSUME NEW queue, NEW told, NEW gone, NEW kept,
           Ordered(queue, told, gone, kept),
           NEW gone2, NEW kept2,
           gone \subseteq gone2, kept \in gone2 \cup {kept2, NoId}
    PROVE  Ordered(queue, told, gone2, kept2)
BY DEF Ordered, Known, Superseded

-----------------------------------------------------------------------------
(* The mod. *)

LEMMA DropsRemember ==
    ASSUME ModType, stored' \in MaybeId, Drops
    PROVE  /\ dropped' \in SUBSET Ids
           /\ dropped \subseteq dropped'
           /\ stored \in dropped' \cup {stored', NoId}
BY DEF Drops, ModType, MaybeId

(* The slot after each answer the mod can put there. *)
LEMMA AnswersHonest ==
    ASSUME ModType
    PROVE  /\ Hello(stored, assembling.id) \in ModDatagrams
           /\ \A id \in Ids : Ready(id) \in ModDatagrams /\ Ack(id) \in ModDatagrams
           /\ \A id \in Ids : Refusal(id) \in ModDatagrams
           /\ \A id \in Ids : \A round \in Nat : \A report \in Ascending :
                Missing(id, round, report) \in ModDatagrams
<1>1. stored \in MaybeId /\ assembling.id \in MaybeId
  BY DEF ModType
<1>2. Hello(stored, assembling.id) \in ModDatagrams
  BY <1>1 DEF Hello, ModDatagrams
<1>3. \A id \in Ids : Ready(id) \in ModDatagrams /\ Ack(id) \in ModDatagrams
                      /\ Refusal(id) \in ModDatagrams
  BY DEF Ready, Ack, Refusal, ModDatagrams
<1>4. \A id \in Ids : \A round \in Nat : \A report \in Ascending :
        Missing(id, round, report) \in ModDatagrams
  BY DEF Missing, ModDatagrams
<1> QED
  BY <1>2, <1>3, <1>4

LEMMA SetHelloHonest ==
    ASSUME ModType, SlotHonest, SetHello, UNCHANGED stored
    PROVE  SlotHonest'
<1>1. CASE slot = NoAnswer
  <2>1. slot' = Hello(stored, assembling.id) /\ slot' \in ModDatagrams
    BY <1>1, AnswersHonest DEF SetHello
  <2>2. slot'.type = "H" /\ slot'.stored = stored
    BY <2>1 DEF Hello
  <2> QED
    BY <2>1, <2>2 DEF SlotHonest
<1>2. CASE slot # NoAnswer
  BY <1>2 DEF SetHello, SlotHonest
<1> QED
  BY <1>1, <1>2

(* What a datagram does to what the mod stores, and to its slot. *)
LEMMA DatagramStores ==
    ASSUME ModType, SlotHonest, NEW d \in BridgeDatagrams, OnDatagram(d)
    PROVE  /\ SlotHonest'
           /\ newest' \in MaybeId
           /\ assembling' \in [id: MaybeId, held: SUBSET Nat]
           /\ UNCHANGED saved
           /\ \/ stored' = stored
              \/ stored' \in Ids /\ "accept" \in Verdicts[stored']
<1> USE DEF ModType
<1>1. CASE d.type = "P" /\ OnPing(d)
  <2>1. d.newest \in MaybeId
    BY <1>1 DEF BridgeDatagrams
  <2> QED
    BY <1>1, <2>1, SetHelloHonest DEF OnDatagram, OnPing
<1>2. CASE d.type = "V" /\ OnOtherVersion
  BY <1>2, SetHelloHonest DEF OnDatagram, OnOtherVersion
<1>3. CASE d.type = "W" /\ OnProbe(d)
  <2>1. d.id \in Ids
    BY <1>3 DEF BridgeDatagrams
  <2>2. stored' = stored /\ newest' = newest
    BY <1>3 DEF OnProbe
  <2>3. assembling' \in {NoAssembly, assembling, [id |-> d.id, held |-> {}]}
    BY <1>3 DEF OnProbe
  <2>4. assembling' \in [id: MaybeId, held: SUBSET Nat]
    BY <2>1, <2>3 DEF NoAssembly, MaybeId
  <2>5. CASE d.id = stored
    <3>1. slot' = Ack(d.id) /\ slot' \in ModDatagrams
      BY <1>3, <2>1, <2>5, AnswersHonest DEF OnProbe
    <3>2. slot'.type = "A" /\ slot'.id = d.id
      BY <3>1 DEF Ack
    <3> QED
      BY <1>3, <2>2, <2>4, <2>5, <3>1, <3>2 DEF OnDatagram, SlotHonest
  <2>6. CASE d.id # stored
    <3>1. slot' = Ready(d.id) /\ slot' \in ModDatagrams
      BY <1>3, <2>1, <2>6, AnswersHonest DEF OnProbe
    <3>2. slot'.type = "R"
      BY <3>1 DEF Ready
    <3> QED
      BY <1>3, <2>2, <2>4, <3>1, <3>2 DEF OnDatagram, SlotHonest
  <2> QED
    BY <2>5, <2>6
<1>4. CASE d.type = "C" /\ OnChunk(d)
  <2>1. d.id \in Ids /\ newest' = newest /\ saved' = saved
    BY <1>4 DEF BridgeDatagrams, OnChunk, OnDatagram
  <2>2. CASE Finish(d.id)
    <3>1. assembling' \in [id: MaybeId, held: SUBSET Nat]
      BY <2>2 DEF Finish, NoAssembly, MaybeId
    <3>2. CASE "accept" \in Verdicts[d.id] /\ stored' = d.id /\ slot' = Ack(d.id)
      <4>1. slot' \in ModDatagrams /\ slot'.type = "A" /\ slot'.id = d.id
        <5>1. Ack(d.id) \in ModDatagrams
          BY <2>1, AnswersHonest
        <5> QED
          BY <3>2, <5>1 DEF Ack
      <4> QED
        BY <2>1, <3>1, <3>2, <4>1 DEF SlotHonest
    <3>3. CASE "refuse" \in Verdicts[d.id] /\ slot' = Refusal(d.id) /\ stored' = stored
      <4>1. slot' \in ModDatagrams /\ slot'.type = "N" /\ slot'.id = d.id
        <5>1. Refusal(d.id) \in ModDatagrams
          BY <2>1, AnswersHonest
        <5> QED
          BY <3>3, <5>1 DEF Refusal
      <4> QED
        BY <2>1, <3>1, <3>3, <4>1 DEF SlotHonest
    <3> QED
      BY <2>2, <3>2, <3>3 DEF Finish
  <2>3. CASE UNCHANGED <<stored, assembling, slot>>
    BY <2>1, <2>3 DEF SlotHonest
  <2>4. CASE /\ assembling' = [assembling EXCEPT !.held = @ \cup {d.index}]
             /\ UNCHANGED <<stored, slot>>
    <3>1. d.index \in Nat
      BY <1>4 DEF BridgeDatagrams
    <3>2. assembling' \in [id: MaybeId, held: SUBSET Nat]
      BY <2>4, <3>1
    <3> QED
      BY <2>1, <2>4, <3>2 DEF SlotHonest
  <2> QED
    BY <1>4, <2>2, <2>3, <2>4 DEF OnChunk
<1>5. CASE d.type = "E" /\ OnEndOfWindow(d)
  <2>1. d.id \in Ids /\ d.round \in Nat /\ d.upto \in Nat
    BY <1>5 DEF BridgeDatagrams
  <2>2. UNCHANGED <<stored, assembling, newest, saved>>
    BY <1>5 DEF OnEndOfWindow, OnDatagram
  <2>3. CASE d.id = stored /\ slot' = Ack(d.id)
    <3>1. Ack(d.id) \in ModDatagrams
      BY <2>1, AnswersHonest
    <3>2. slot'.type = "A" /\ slot'.id = stored
      BY <2>3 DEF Ack
    <3> QED
      BY <2>2, <2>3, <3>1, <3>2 DEF SlotHonest
  <2>4. CASE slot' = slot
    BY <2>2, <2>4 DEF SlotHonest
  <2>5. CASE slot' = Missing(d.id, d.round, MissingRanges(assembling.held, d.upto))
    <3>1. MissingRanges(assembling.held, d.upto) \in Ascending
      BY <2>1, ReportTyped
    <3>2. slot' \in ModDatagrams
      BY <2>1, <2>5, <3>1, AnswersHonest
    <3>3. slot'.type = "M"
      BY <2>5 DEF Missing
    <3> QED
      BY <2>2, <3>2, <3>3 DEF SlotHonest
  <2> QED
    BY <1>5, <2>3, <2>4, <2>5 DEF OnEndOfWindow
<1> QED
  BY <1>1, <1>2, <1>3, <1>4, <1>5 DEF OnDatagram

-----------------------------------------------------------------------------
(* The invariant, step by step. *)

(* What the driver leaves of a session that has just been called. *)
LEMMA FlushSays ==
    ASSUME NEW s, Good(s), Flush(s), toMod \in Seq(BridgeDatagrams)
    PROVE  /\ Good(bridge')
           /\ SameTransfer(s, bridge') /\ bridge'.phase = s.phase
           /\ toMod' \in Seq(BridgeDatagrams)
           /\ Len(toMod') >= Len(toMod)
<1> DEFINE f == Flushed(s)
<1>1. Good(f)
  BY FlushedGood
<1>2. SameTransfer(s, f) /\ f.phase = s.phase
  BY DEF Good, Flushed, SameTransfer, SessionType
<1>3. bridge' = [f EXCEPT !.chunksUnheard = <<>>, !.probesUnheard = 0]
  BY DEF Flush
<1> HIDE DEF f
<1>4. Good(bridge')
  BY <1>1, <1>3, HearingGood DEF Heard
<1>5. SameTransfer(f, bridge') /\ bridge'.phase = f.phase
  BY <1>1, <1>3 DEF Good, SameTransfer, SessionType
<1>6. s.out \in Seq(BridgeDatagrams)
  BY Fields DEF Good
<1>7. toMod' \in Seq(BridgeDatagrams) /\ Len(toMod') = Len(toMod) + Len(s.out)
  BY <1>6, Concatenation DEF Flush
<1>8. Len(s.out) \in Nat /\ Len(toMod) \in Nat
  BY <1>6
<1> QED
  BY <1>2, <1>4, <1>5, <1>7, <1>8 DEF SameTransfer

(* A step of the bridge: what it claims next it claimed before, or was just *)
(* told, and the answers still on their way stay in order.                  *)
LEMMA BridgeStepKeeps ==
    ASSUME DInv, NEW s, Good(s), Flush(s),
           UNCHANGED <<modVars, batch, dropped>>,
           toBridge' \in Seq(ModDatagrams),
           Ordered(toBridge', Claims(s), dropped, stored)
    PROVE  DInv'
<1>1. /\ Good(bridge') /\ SameTransfer(s, bridge') /\ bridge'.phase = s.phase
      /\ toMod' \in Seq(BridgeDatagrams)
      /\ Len(toMod') >= Len(toMod)
  BY FlushSays DEF DInv
<1>2. batch' \in 0..Len(toMod')
  <2>1. batch \in 0..Len(toMod) /\ Len(toMod) \in Nat /\ Len(toMod') \in Nat
    BY <1>1 DEF DInv
  <2> QED
    BY <1>1, <2>1
<1>3. Claims(bridge') = Claims(s)
  BY <1>1 DEF Claims, SameTransfer
<1>4. ModType' /\ SlotHonest' /\ (saved \in Known(dropped, stored))'
  BY DEF DInv, ModType, SlotHonest, modVars
<1>5. Ordered(toBridge', Claims(bridge'), dropped', stored')
  BY <1>3 DEF modVars
<1> QED
  BY <1>1, <1>2, <1>4, <1>5 DEF DInv

(* Claims of a session that only goes on are not new. *)
LEMMA StillClaims ==
    ASSUME NEW s, NEW t, SameTransfer(s, t), Still(s, t)
    PROVE  Claims(t) \subseteq Claims(s)
BY DEF SameTransfer, Still, Pending, InProgress, Claims

LEMMA OrderedLess ==
    ASSUME NEW queue, NEW told, NEW gone, NEW kept,
           Ordered(queue, told, gone, kept), NEW now \in SUBSET (told \cup {NoId})
    PROVE  Ordered(queue, now, gone, kept)
BY DEF Ordered, Known, Superseded

LEMMA QuietKeeps ==
    ASSUME DInv, NEW s, Good(s), Flush(s), SameTransfer(bridge, s), Still(bridge, s),
           UNCHANGED <<modVars, batch, dropped, toBridge>>
    PROVE  DInv'
<1>1. Claims(s) \subseteq Claims(bridge)
  BY StillClaims
<1>2. Ordered(toBridge, Claims(s), dropped, stored)
  BY <1>1, OrderedLess DEF DInv
<1>3. toBridge' = toBridge /\ toBridge \in Seq(ModDatagrams)
  BY DEF DInv
<1> QED
  BY <1>2, <1>3, BridgeStepKeeps

LEMMA HearingKeeps ==
    ASSUME Patient, DInv, BridgeHears
    PROVE  DInv'
<1> DEFINE d == Head(toBridge)
           s == HandleDatagram(bridge, d)
<1>1. /\ toBridge \in Seq(ModDatagrams) /\ toBridge # <<>>
      /\ Ordered(toBridge, Claims(bridge), dropped, stored) /\ Good(bridge)
  BY DEF DInv, BridgeHears
<1>2. d \in ModDatagrams
  BY <1>1
<1>3. Good(s)
  BY <1>1, <1>2, HandleDatagramGood
<1>4. /\ s.id = bridge.id /\ s.stored \in {bridge.stored, Claim(d), NoId}
      /\ Heeds(bridge, d, s)
  BY <1>1, <1>2, HandleDatagramSays
<1>5. Flush(s) /\ toBridge' = Tail(toBridge) /\ UNCHANGED <<modVars, batch, dropped>>
  BY DEF BridgeHears, BridgeOnly
<1> HIDE DEF s
<1>6. Claims(s) \in SUBSET (Claims(bridge) \cup {Claim(d), NoId})
  <2>1. s.phase = "delivered" =>
          bridge.phase = "delivered" \/ Claim(d) = bridge.id
    BY <1>4 DEF Heeds, Still, Pending, InProgress
  <2> HIDE DEF d
  <2> QED
    BY <1>4, <2>1 DEF Claims
<1>7. /\ Tail(toBridge) \in Seq(ModDatagrams)
      /\ Ordered(Tail(toBridge), Claims(s), dropped, stored)
  BY <1>1, <1>6, OrderedHeard
<1> QED
  BY <1>3, <1>5, <1>7, BridgeStepKeeps

LEMMA SendingKeeps ==
    ASSUME DInv, NEW id \in Ids, PlannerSends(id)
    PROVE  DInv'
<1> DEFINE s == ReceiveSnapshot(bridge, id)
<1>1. Good(bridge) /\ Ordered(toBridge, Claims(bridge), dropped, stored)
  BY DEF DInv
<1>2. Good(s)
  BY <1>1, ReceiveSnapshotGood
<1>3. /\ s.id = id /\ s.stored = bridge.stored
      /\ \/ Pending(s)
         \/ /\ s.phase = "delivered"
            /\ bridge.stored = id \/ (bridge.phase = "delivered" /\ bridge.id = id)
  BY <1>1, ReceiveSnapshotSays
<1>4. Flush(s) /\ UNCHANGED <<modVars, batch, dropped, toBridge>>
  BY DEF PlannerSends, BridgeOnly
<1> HIDE DEF s
<1>5. Claims(s) \subseteq Claims(bridge)
  BY <1>3 DEF Claims, Pending, InProgress
<1>6. Ordered(toBridge, Claims(s), dropped, stored)
  BY <1>1, <1>5, OrderedLess
<1>7. toBridge' = toBridge /\ toBridge \in Seq(ModDatagrams)
  BY <1>4 DEF DInv
<1> QED
  BY <1>2, <1>4, <1>6, <1>7, BridgeStepKeeps

(* The steps that leave the transfer where it is. *)
LEMMA QuietStepKeeps ==
    ASSUME DInv,
           \/ \E id \in Ids : PlannerAnnounces(id)
           \/ \E pingDue, slotDue \in BOOLEAN : BridgeTimeout(pingDue, slotDue)
           \/ ProbeTimePasses \/ LinkTurnsQuiet \/ NudgeTimePasses
    PROVE  /\ DInv'
           /\ SameTransfer(bridge, bridge') /\ Still(bridge, bridge')
           /\ UNCHANGED <<stored, dropped>>
<1>1. Good(bridge) /\ bridge \in SessionType /\ toMod \in Seq(BridgeDatagrams)
  BY DEF DInv, Good
<1>2. ASSUME NEW s, Good(s), Flush(s), SameTransfer(bridge, s), Still(bridge, s),
             UNCHANGED <<modVars, batch, dropped, toBridge>>
      PROVE  /\ DInv'
             /\ SameTransfer(bridge, bridge') /\ Still(bridge, bridge')
             /\ UNCHANGED <<stored, dropped>>
  <2>1. SameTransfer(s, bridge') /\ bridge'.phase = s.phase
    BY <1>1, <1>2, FlushSays
  <2>2. DInv'
    BY <1>2, QuietKeeps
  <2> QED
    BY <1>2, <2>1, <2>2 DEF SameTransfer, Still, Pending, modVars
<1>3. ASSUME NEW id \in Ids, PlannerAnnounces(id)
      PROVE  /\ Good(Announce(bridge, id)) /\ Flush(Announce(bridge, id))
             /\ SameTransfer(bridge, Announce(bridge, id))
             /\ Still(bridge, Announce(bridge, id))
             /\ UNCHANGED <<modVars, batch, dropped, toBridge>>
  <2>1. id \in MaybeId
    BY DEF MaybeId
  <2>2. Good(Announce(bridge, id)) /\ Announce(bridge, id).phase = bridge.phase
    BY <1>1, <2>1, AnnounceGood
  <2>3. SameTransfer(bridge, Announce(bridge, id))
    BY <1>1 DEF Announce, SameTransfer, SessionType
  <2> QED
    BY <1>3, <2>2, <2>3 DEF PlannerAnnounces, BridgeOnly, Still
<1>4. ASSUME NEW pingDue \in BOOLEAN, NEW slotDue \in BOOLEAN,
             BridgeTimeout(pingDue, slotDue)
      PROVE  LET s == HandleTimeout(bridge, pingDue, slotDue)
             IN  /\ Good(s) /\ Flush(s)
                 /\ SameTransfer(bridge, s) /\ Still(bridge, s)
                 /\ UNCHANGED <<modVars, batch, dropped, toBridge>>
  BY <1>1, <1>4, HandleTimeoutGood, HandleTimeoutSays DEF BridgeTimeout, BridgeOnly
<1>5. ASSUME NEW s \in {ProbeAges(bridge), TurnsQuiet(bridge), NudgeComesDue(bridge)},
             TimeOnly(s)
      PROVE  /\ Good(s) /\ Flush(s)
             /\ SameTransfer(bridge, s) /\ Still(bridge, s)
             /\ UNCHANGED <<modVars, batch, dropped, toBridge>>
  <2>1. Good(s)
    BY <1>1, TimeGood
  <2>2. SameTransfer(bridge, s) /\ s.phase = bridge.phase
    BY <1>1 DEF ProbeAges, TurnsQuiet, NudgeComesDue, SameTransfer, SessionType
  <2> QED
    BY <1>5, <2>1, <2>2 DEF TimeOnly, BridgeOnly, Still
<1> QED
  BY <1>2, <1>3, <1>4, <1>5 DEF ProbeTimePasses, LinkTurnsQuiet, NudgeTimePasses

LEMMA RestartKeeps ==
    ASSUME DInv, BridgeRestarts
    PROVE  DInv'
<1>1. Good(NewSession)
  BY NewSessionGood
<1>2. Claims(NewSession) = {NoId}
  BY DEF Claims, NewSession
<1>3. Ordered(<<>>, {NoId}, dropped, stored)
  BY DEF Ordered, Known
<1>4. <<>> \in Seq(ModDatagrams)
  OBVIOUS
<1> QED
  BY <1>1, <1>2, <1>3, <1>4, BridgeStepKeeps DEF BridgeRestarts, BridgeOnly

(* A step of the mod and its socket: the bridge and what it was told stay. *)
LEMMA ModStepKeeps ==
    ASSUME DInv, bridge' = bridge,
           toMod' \in Seq(BridgeDatagrams), batch' \in 0..Len(toMod'),
           toBridge' = toBridge, ModType', SlotHonest',
           saved' \in Known(dropped, stored) \cup {stored, stored'},
           dropped \subseteq dropped', stored \in dropped' \cup {stored', NoId}
    PROVE  DInv'
<1>1. saved' \in Known(dropped', stored')
  BY DEF Known
<1>2. Ordered(toBridge, Claims(bridge), dropped', stored')
  BY OrderedLater DEF DInv
<1> QED
  BY <1>1, <1>2 DEF DInv

LEMMA ModHearsKeeps ==
    ASSUME DInv, ModHears
    PROVE  /\ DInv'
           /\ bridge' = bridge
           /\ \/ stored' = stored
              \/ stored' \in Ids /\ "accept" \in Verdicts[stored']
           /\ Drops
<1>1. /\ toMod \in Seq(BridgeDatagrams) /\ batch \in 1..Len(toMod)
      /\ ModType /\ SlotHonest /\ saved \in Known(dropped, stored)
  BY DEF DInv, ModHears, Draining
<1>2. /\ Head(toMod) \in BridgeDatagrams
      /\ Tail(toMod) \in Seq(BridgeDatagrams) /\ Len(Tail(toMod)) = Len(toMod) - 1
  <2>1. toMod # <<>>
    BY <1>1
  <2> QED
    BY <1>1, <2>1
<1>3. /\ OnDatagram(Head(toMod)) /\ toMod' = Tail(toMod) /\ batch' = batch - 1
      /\ Drops /\ bridge' = bridge /\ toBridge' = toBridge
  BY DEF ModHears, ModOnly
<1>4. /\ SlotHonest'
      /\ newest' \in MaybeId
      /\ assembling' \in [id: MaybeId, held: SUBSET Nat]
      /\ UNCHANGED saved
      /\ \/ stored' = stored
         \/ stored' \in Ids /\ "accept" \in Verdicts[stored']
  BY <1>1, <1>2, <1>3, DatagramStores
<1>5. stored' \in MaybeId
  BY <1>1, <1>4 DEF ModType, MaybeId
<1>6. /\ dropped' \in SUBSET Ids /\ dropped \subseteq dropped'
      /\ stored \in dropped' \cup {stored', NoId}
  BY <1>1, <1>3, <1>5, DropsRemember
<1>7. ModType'
  BY <1>1, <1>4, <1>5, <1>6 DEF ModType
<1>8. batch' \in 0..Len(toMod')
  BY <1>1, <1>2, <1>3
<1>9. saved' \in Known(dropped, stored)
  BY <1>1, <1>4
<1> QED
  BY <1>2, <1>3, <1>4, <1>6, <1>7, <1>8, <1>9, ModStepKeeps

LEMMA LoadKeeps ==
    ASSUME DInv, GameLoads
    PROVE  DInv'
<1>1. ModType /\ saved \in Known(dropped, stored) /\ batch \in 0..Len(toMod)
  BY DEF DInv
<1>2. /\ stored' = saved /\ saved' = saved /\ newest' = NoId
      /\ assembling' = NoAssembly /\ slot' = NoAnswer
      /\ toMod' = <<>> /\ batch' = batch /\ bridge' = bridge /\ toBridge' = toBridge
      /\ Drops /\ ~(batch > 0)
  BY DEF GameLoads, Load, ModOnly, Draining
<1>3. /\ dropped' \in SUBSET Ids /\ dropped \subseteq dropped'
      /\ stored \in dropped' \cup {stored', NoId}
  BY <1>1, <1>2, DropsRemember DEF ModType
<1>4. ModType'
  BY <1>1, <1>2, <1>3 DEF ModType, NoAssembly, MaybeId
<1>5. SlotHonest'
  BY <1>2 DEF SlotHonest, NoAnswer
<1>6. toMod' \in Seq(BridgeDatagrams) /\ batch' \in 0..Len(toMod')
  BY <1>1, <1>2
<1> QED
  BY <1>1, <1>2, <1>3, <1>4, <1>5, <1>6, ModStepKeeps

LEMMA SaveKeeps ==
    ASSUME DInv, GameSaves
    PROVE  DInv' /\ UNCHANGED <<bridge, stored, dropped>>
<1>1. /\ saved' = stored
      /\ UNCHANGED <<stored, assembling, slot, newest, bridge, toMod, toBridge,
                     batch, dropped>>
  BY DEF GameSaves, Save, ModOnly
<1>2. ModType'
  BY <1>1 DEF DInv, ModType
<1>3. SlotHonest'
  BY <1>1 DEF DInv, SlotHonest
<1>4. toMod' \in Seq(BridgeDatagrams) /\ batch' \in 0..Len(toMod')
  BY <1>1 DEF DInv
<1>5. stored \in dropped' \cup {stored', NoId} /\ dropped \subseteq dropped'
  BY <1>1
<1>6. saved' \in Known(dropped, stored) \cup {stored, stored'}
  BY <1>1
<1>7. bridge' = bridge /\ toBridge' = toBridge
  BY <1>1
<1>8. DInv'
  BY <1>2, <1>3, <1>4, <1>5, <1>6, <1>7, ModStepKeeps
<1> QED
  BY <1>1, <1>8

LEMMA PollKeeps ==
    ASSUME DInv, Poll
    PROVE  DInv' /\ UNCHANGED <<bridge, stored, dropped>>
<1>1. /\ UNCHANGED <<modVars, bridge, toMod, toBridge, dropped>>
      /\ batch' = Len(toMod)
  BY DEF Poll, ModOnly
<1>2. ModType' /\ SlotHonest'
  BY <1>1 DEF DInv, ModType, SlotHonest, modVars
<1>3. toMod' \in Seq(BridgeDatagrams) /\ batch' \in 0..Len(toMod')
  BY <1>1 DEF DInv
<1>4. stored \in dropped' \cup {stored', NoId} /\ dropped \subseteq dropped'
  BY <1>1 DEF modVars
<1>5. saved' \in Known(dropped, stored)
  BY <1>1 DEF DInv, modVars
<1>6. bridge' = bridge /\ toBridge' = toBridge
  BY <1>1
<1>7. DInv'
  BY <1>2, <1>3, <1>4, <1>5, <1>6, ModStepKeeps
<1> QED
  BY <1>1, <1>7 DEF modVars

LEMMA FlushKeeps ==
    ASSUME DInv, ModFlushes
    PROVE  DInv' /\ UNCHANGED <<bridge, stored, dropped>>
<1>1. /\ slot # NoAnswer /\ slot' = NoAnswer
      /\ UNCHANGED <<stored, assembling, newest, saved, bridge, toMod, batch, dropped>>
      /\ toBridge' = Append(toBridge, slot)
  BY DEF ModFlushes, TakeAnswer, ModOnly
<1>2. /\ toBridge' \in Seq(ModDatagrams)
      /\ Ordered(toBridge', Claims(bridge), dropped, stored)
  BY <1>1, OrderedJoined DEF DInv
<1>3. ModType'
  BY <1>1 DEF DInv, ModType
<1>4. SlotHonest'
  BY <1>1 DEF SlotHonest, NoAnswer
<1> QED
  BY <1>1, <1>2, <1>3, <1>4 DEF DInv

LEMMA LossKeeps ==
    ASSUME DInv, LoseToMod \/ LoseToBridge
    PROVE  DInv' /\ UNCHANGED <<bridge, stored, dropped>>
<1>1. UNCHANGED <<bridge, modVars, batch, dropped>> /\ ~(batch > 0)
  BY DEF LoseToMod, LoseToBridge, Draining
<1>2. ModType' /\ SlotHonest' /\ (saved \in Known(dropped, stored))'
  BY <1>1 DEF DInv, ModType, SlotHonest, modVars
<1>3. batch' = 0
  BY <1>1 DEF DInv
<1>4. CASE LoseToMod
  <2>1. PICK k \in 1..Len(toMod) : toMod' = RemoveAt(toMod, k)
    BY <1>4 DEF LoseToMod, DInv
  <2>2. toMod' \in Seq(BridgeDatagrams)
    <3>1. /\ \A i \in 1..(k - 1) : toMod[i] \in BridgeDatagrams
          /\ \A i \in (k + 1)..Len(toMod) : toMod[i] \in BridgeDatagrams
          /\ k - 1 \in Int /\ k + 1 \in Int /\ Len(toMod) \in Int
      BY DEF DInv
    <3>2. /\ SubSeq(toMod, 1, k - 1) \in Seq(BridgeDatagrams)
          /\ SubSeq(toMod, k + 1, Len(toMod)) \in Seq(BridgeDatagrams)
      BY <3>1, SubSeqProperties
    <3> QED
      BY <2>1, <3>2, Concatenation DEF RemoveAt
  <2>3. toBridge' = toBridge
    BY <1>4 DEF LoseToMod
  <2>4. batch' \in 0..Len(toMod')
    BY <1>3, <2>2
  <2> QED
    BY <1>1, <1>2, <2>2, <2>3, <2>4 DEF DInv, modVars
<1>5. CASE LoseToBridge
  <2>1. PICK k \in 1..Len(toBridge) : toBridge' = RemoveAt(toBridge, k)
    BY <1>5 DEF LoseToBridge, DInv
  <2>2. /\ toBridge' \in Seq(ModDatagrams)
        /\ Ordered(toBridge', Claims(bridge), dropped, stored)
    BY <2>1, OrderedWithout DEF DInv
  <2>3. toMod' = toMod
    BY <1>5 DEF LoseToBridge
  <2> QED
    BY <1>1, <1>2, <2>2, <2>3 DEF DInv, modVars
<1> QED
  BY <1>1, <1>4, <1>5 DEF modVars

-----------------------------------------------------------------------------
(* The refinement. *)

(* The mailbox's outcome for each phase, and that two sessions that are     *)
(* still in the same part of a transfer have the same.                      *)
Says(s) ==
    CASE s.phase = "idle" -> "none"
      [] s.phase \in InProgress \cup {"waiting"} -> "pending"
      [] s.phase = "delivered" -> "delivered"
      [] s.phase = "rejected" -> "refused"
      [] s.phase = "failed" -> "abandoned"

LEMMA SaysCases ==
    ASSUME NEW s, s.phase \in Phases
    PROVE  /\ s.phase = "idle" => Says(s) = "none"
           /\ Pending(s) => Says(s) = "pending"
           /\ s.phase = "delivered" => Says(s) = "delivered"
           /\ s.phase = "rejected" => Says(s) = "refused"
           /\ s.phase = "failed" => Says(s) = "abandoned"
           /\ s.phase = "idle" \/ Pending(s) \/ s.phase = "delivered"
              \/ s.phase = "rejected" \/ s.phase = "failed"
<1>1. s.phase = "idle" => Says(s) = "none"
  BY DEF Says, InProgress
<1>2. Pending(s) => Says(s) = "pending"
  BY DEF Says, Pending, InProgress
<1>3. s.phase = "delivered" => Says(s) = "delivered"
  BY DEF Says, InProgress
<1>4. s.phase = "rejected" => Says(s) = "refused"
  BY DEF Says, InProgress
<1>5. s.phase = "failed" => Says(s) = "abandoned"
  BY DEF Says, InProgress
<1>6. \/ s.phase = "idle" \/ Pending(s) \/ s.phase = "delivered"
      \/ s.phase = "rejected" \/ s.phase = "failed"
  BY DEF Phases, Pending, InProgress
<1> QED
  BY <1>1, <1>2, <1>3, <1>4, <1>5, <1>6

LEMMA StillSays ==
    ASSUME NEW s, NEW t, s.phase \in Phases, t.phase \in Phases, Still(s, t)
    PROVE  Says(t) = Says(s)
<1>1. CASE t.phase = s.phase
  BY <1>1 DEF Says
<1>2. CASE Pending(s) /\ Pending(t)
  BY <1>2, SaysCases
<1> QED
  BY <1>1, <1>2 DEF Still

LEMMA InitImplements == Init => DInv /\ Promise!MailInit
<1> SUFFICES ASSUME Init
             PROVE  DInv /\ Promise!MailInit
  OBVIOUS
<1> DEFINE f == Flushed(NewSession)
<1>1. Good(f)
  BY NewSessionGood, FlushedGood
<1>2. f.id = NoId /\ f.phase = "idle" /\ f.stored = NoId
  BY DEF Flushed, NewSession
<1>3. bridge = f
  BY DEF Init
<1> HIDE DEF f
<1>4. NewSession.out \in Seq(BridgeDatagrams)
  BY NewSessionGood, Fields DEF Good
<1>5. /\ toMod \in Seq(BridgeDatagrams) /\ toBridge = <<>> /\ batch = 0
      /\ dropped = {} /\ stored = NoId /\ saved = NoId /\ slot = NoAnswer
      /\ newest = NoId /\ assembling = [id |-> NoId, held |-> {}]
  BY <1>4 DEF Init, ModInit, NoAssembly
<1>6. ModType
  BY <1>5 DEF ModType, MaybeId
<1>7. SlotHonest
  BY <1>5 DEF SlotHonest, NoAnswer
<1>8. Ordered(toBridge, Claims(bridge), dropped, stored)
  BY <1>2, <1>3, <1>5 DEF Ordered, Claims, Known
<1>9. batch \in 0..Len(toMod) /\ toBridge \in Seq(ModDatagrams) /\ saved \in Known(dropped, stored)
  BY <1>5 DEF Known
<1>10. DInv
  BY <1>1, <1>3, <1>5, <1>6, <1>7, <1>8, <1>9 DEF DInv
<1>11. Promise!MailInit
  <2>1. sends = 0
    BY DEF Init
  <2> QED
    BY <1>2, <1>3, <1>5, <2>1 DEF Promise!MailInit, Outcome, InProgress
<1> QED
  BY <1>10, <1>11

(* Every step keeps the invariant, and is a step of the mailbox or none. *)
LEMMA StepImplements ==
    ASSUME Patient, DInv, [Next]_vars
    PROVE  DInv' /\ [Promise!MailNext]_(Promise!mail)
<1>1. Outcome = Says(bridge) /\ Outcome' = Says(bridge')
  BY DEF Outcome, Says
<1>2. bridge.phase \in Phases /\ (DInv' => bridge'.phase \in Phases)
  BY DEF DInv, Good, SessionType
<1>3. ASSUME DInv', SameTransfer(bridge, bridge'), Still(bridge, bridge'),
             UNCHANGED <<stored, dropped, sends>>
      PROVE  UNCHANGED Promise!mail
  <2>1. Outcome' = Outcome /\ bridge'.id = bridge.id
    BY <1>1, <1>2, <1>3, StillSays DEF SameTransfer
  <2> QED
    BY <1>3, <2>1 DEF Promise!mail
<1>4. ASSUME DInv', UNCHANGED <<bridge, stored, dropped, sends>>
      PROVE  UNCHANGED Promise!mail
  BY <1>3, <1>4 DEF SameTransfer, Still
<1>5. ASSUME NEW id \in Ids, PlannerSends(id)
      PROVE  DInv' /\ Promise!Offer(id)
  <2> DEFINE s == ReceiveSnapshot(bridge, id)
  <2>1. DInv'
    BY <1>5, SendingKeeps
  <2>2. /\ s.id = id /\ s.stored = bridge.stored
        /\ \/ Pending(s)
           \/ /\ s.phase = "delivered"
              /\ bridge.stored = id \/ (bridge.phase = "delivered" /\ bridge.id = id)
    BY ReceiveSnapshotSays DEF DInv
  <2>3. SameTransfer(s, bridge') /\ bridge'.phase = s.phase
    BY <1>5, ReceiveSnapshotGood, FlushSays DEF DInv, PlannerSends
  <2>4. UNCHANGED <<stored, dropped>> /\ sends' = sends + 1
    BY <1>5 DEF PlannerSends, BridgeOnly, modVars
  <2> HIDE DEF s
  <2>5. Says(bridge') = "pending"
        \/ (Says(bridge') = "delivered" /\ id \in Claims(bridge))
    BY <1>2, <2>1, <2>2, <2>3, SaysCases DEF Claims, Pending
  <2>6. id \in Claims(bridge) => id \in Promise!EverKept
    BY NoIdAssumption DEF DInv, Ordered, Known, Promise!EverKept
  <2>7. bridge'.id = id
    BY <2>2, <2>3 DEF SameTransfer
  <2>8. CASE bridge.id = id /\ (Pending(bridge) \/ bridge.phase = "delivered")
    <3>1. bridge.phase # "idle"
      BY <2>8 DEF Pending, InProgress
    <3>2. SameTransfer(bridge, s) /\ s.phase = bridge.phase
      BY <2>8, <3>1, SameSnapshotSays DEF DInv, s
    <3>3. Says(bridge') = Says(bridge)
      BY <2>3, <3>2 DEF Says
    <3>4. Says(bridge) \in {"pending", "delivered"}
      BY <1>2, <2>8, SaysCases
    <3>5. Promise!UnderWay(id)
      BY <1>1, <2>8, <3>4 DEF Promise!UnderWay
    <3> QED
      BY <1>1, <2>1, <2>4, <2>7, <3>3, <3>5 DEF Promise!Offer
  <2>9. CASE ~(bridge.id = id /\ (Pending(bridge) \/ bridge.phase = "delivered"))
    <3>1. bridge.id = id => Says(bridge) \in {"refused", "abandoned"}
      <4>1. bridge.id = id => bridge.phase # "idle"
        BY NoIdAssumption DEF DInv, Good, WindowSound
      <4> QED
        BY <1>2, <2>9, <4>1, SaysCases
    <3>2. ~Promise!UnderWay(id)
      BY <1>1, <3>1 DEF Promise!UnderWay
    <3> QED
      BY <1>1, <2>1, <2>4, <2>5, <2>6, <2>7, <3>2 DEF Promise!Offer
  <2> QED
    BY <2>8, <2>9
<1>6. CASE BridgeHears
  <2> DEFINE d == Head(toBridge)
             s == HandleDatagram(bridge, d)
  <2>1. DInv'
    BY <1>6, HearingKeeps
  <2>2. /\ Good(bridge) /\ toBridge \in Seq(ModDatagrams) /\ toBridge # <<>>
        /\ Ordered(toBridge, Claims(bridge), dropped, stored)
    BY <1>6 DEF DInv, BridgeHears
  <2>3. d \in ModDatagrams /\ d = toBridge[1] /\ 1 \in DOMAIN toBridge
    BY <2>2
  <2>4. s.id = bridge.id /\ Heeds(bridge, d, s)
    BY <2>2, <2>3, HandleDatagramSays
  <2>5. SameTransfer(s, bridge') /\ bridge'.phase = s.phase
    BY <1>6, <2>2, <2>3, HandleDatagramGood, FlushSays DEF DInv, BridgeHears
  <2>6. UNCHANGED <<stored, dropped, sends>>
    BY <1>6 DEF BridgeHears, BridgeOnly, modVars
  <2> HIDE DEF s
  <2>7. bridge'.id = bridge.id /\ Heeds(bridge, d, bridge')
    BY <2>4, <2>5 DEF SameTransfer, Heeds, Still, Pending
  <2>8. /\ Claim(d) \in Known(dropped, stored)
        /\ d.type = "N" => "refuse" \in Verdicts[d.id]
        /\ d.type = "H" => \A id \in Claims(bridge) : Superseded(id, d.stored, dropped)
    BY <2>2, <2>3 DEF Ordered
  <2> HIDE DEF d
  <2>9. bridge.phase # "idle" => bridge.id \in Ids /\ bridge.id # NoId
    BY <2>2, HeldId, NoIdAssumption
  <2>10. bridge.phase \in Phases /\ bridge'.phase \in Phases
    BY <1>2, <2>1
  <2>11. CASE Still(bridge, bridge')
    <3>1. UNCHANGED Promise!mail
      BY <1>1, <2>6, <2>7, <2>10, <2>11, StillSays DEF Promise!mail
    <3> QED
      BY <2>1, <3>1
  <2>12. CASE /\ bridge.phase # "idle" /\ Claim(d) = bridge.id
              /\ bridge'.phase = "delivered" /\ bridge.phase # "delivered"
    <3>1. bridge.id \in Promise!EverKept
      BY <2>8, <2>9, <2>12 DEF Known, Promise!EverKept
    <3>2. Says(bridge) \in {"pending", "refused", "abandoned"}
          /\ Says(bridge') = "delivered"
      BY <2>10, <2>12, SaysCases
    <3>3. Promise!Confirm
      BY <1>1, <2>6, <2>7, <3>1, <3>2 DEF Promise!Confirm, Promise!Told
    <3> QED
      BY <2>1, <3>3 DEF Promise!MailNext
  <2>13. CASE /\ Pending(bridge) /\ d.type = "N" /\ d.id = bridge.id
              /\ bridge'.phase = "rejected"
    <3>1. bridge.phase # "idle"
      BY <2>13 DEF Pending, InProgress
    <3>2. Says(bridge) = "pending" /\ Says(bridge') = "refused"
      BY <2>10, <2>13, SaysCases
    <3>3. Promise!Refuse
      BY <1>1, <2>6, <2>7, <2>8, <2>9, <2>13, <3>1, <3>2
      DEF Promise!Refuse, Promise!Told
    <3> QED
      BY <2>1, <3>3 DEF Promise!MailNext
  <2>14. CASE Pending(bridge) /\ bridge'.phase = "failed"
    <3>1. Says(bridge) = "pending" /\ Says(bridge') = "abandoned"
      BY <2>10, <2>14, SaysCases
    <3>2. Promise!Abandon
      BY <1>1, <2>6, <2>7, <3>1 DEF Promise!Abandon, Promise!Told
    <3> QED
      BY <2>1, <3>2 DEF Promise!MailNext
  <2>15. CASE /\ bridge.phase = "delivered" /\ d.type = "H"
              /\ d.stored # bridge.id /\ Pending(bridge')
    <3>1. bridge.id \in dropped
      <4>1. bridge.id \in Claims(bridge)
        BY <2>15 DEF Claims
      <4> QED
        BY <2>8, <2>9, <2>15, <4>1 DEF Superseded
    <3>2. Says(bridge) = "delivered" /\ Says(bridge') = "pending"
      BY <2>10, <2>15, SaysCases
    <3>3. Promise!Reopen
      BY <1>1, <2>6, <2>7, <3>1, <3>2 DEF Promise!Reopen, Promise!Told
    <3> QED
      BY <2>1, <3>3 DEF Promise!MailNext
  <2> QED
    BY <2>7, <2>11, <2>12, <2>13, <2>14, <2>15 DEF Heeds, Still
<1>7. CASE \/ \E id \in Ids : PlannerAnnounces(id)
           \/ \E pingDue, slotDue \in BOOLEAN : BridgeTimeout(pingDue, slotDue)
           \/ ProbeTimePasses \/ LinkTurnsQuiet \/ NudgeTimePasses
  <2>1. sends' = sends
    BY <1>7
    DEF PlannerAnnounces, BridgeTimeout, ProbeTimePasses, LinkTurnsQuiet, NudgeTimePasses,
        TimeOnly
  <2> QED
    BY <1>3, <1>7, <2>1, QuietStepKeeps
<1>8. CASE BridgeRestarts
  <2>1. DInv'
    BY <1>8, RestartKeeps
  <2>2. NewSession.id = NoId /\ NewSession.phase = "idle"
    BY DEF NewSession
  <2>3. SameTransfer(NewSession, bridge') /\ bridge'.phase = NewSession.phase
    BY <1>8, NewSessionGood, FlushSays DEF DInv, BridgeRestarts
  <2>4. bridge'.id = NoId /\ Says(bridge') = "none"
    BY <2>2, <2>3 DEF SameTransfer, Says, InProgress
  <2>5. UNCHANGED <<stored, dropped, sends>>
    BY <1>8 DEF BridgeRestarts, BridgeOnly, modVars
  <2>6. Promise!Forget
    BY <1>1, <2>4, <2>5 DEF Promise!Forget
  <2> QED
    BY <2>1, <2>6 DEF Promise!MailNext
<1>9. CASE ModHears
  <2>1. /\ DInv' /\ bridge' = bridge /\ Drops
        /\ \/ stored' = stored
           \/ stored' \in Ids /\ "accept" \in Verdicts[stored']
    BY <1>9, ModHearsKeeps
  <2>2. Outcome' = Outcome /\ sends' = sends
    BY <1>1, <1>9, <2>1 DEF ModHears, ModOnly
  <2>3. CASE stored' = stored
    <3>1. dropped' = dropped
      BY <2>1, <2>3 DEF Drops
    <3> QED
      BY <1>4, <2>1, <2>2, <2>3, <3>1
  <2>4. CASE stored' \in Ids /\ "accept" \in Verdicts[stored']
    <3>1. Promise!Keep(stored')
      BY <2>1, <2>2, <2>4 DEF Drops, Promise!Keep, Promise!KeepNext
    <3> QED
      BY <2>1, <2>4, <3>1 DEF Promise!MailNext
  <2> QED
    BY <2>1, <2>3, <2>4
<1>10. CASE GameLoads
  <2>1. DInv'
    BY <1>10, LoadKeeps
  <2>2. stored' = saved /\ Drops /\ bridge' = bridge /\ sends' = sends
    BY <1>10 DEF GameLoads, Load, ModOnly
  <2>3. saved \in Promise!EverKept \cup {NoId}
    BY DEF DInv, Known, Promise!EverKept
  <2>4. Outcome' = Outcome
    BY <1>1, <2>2
  <2>5. Promise!KeepNext(saved)
    BY <2>2 DEF Drops, Promise!KeepNext
  <2>6. Promise!GoBack
    BY <2>2, <2>3, <2>4, <2>5 DEF Promise!GoBack
  <2> QED
    BY <2>1, <2>6 DEF Promise!MailNext
<1>11. CASE Poll \/ ModFlushes \/ GameSaves \/ LoseToMod \/ LoseToBridge
  <2>1. sends' = sends
    BY <1>11 DEF Poll, ModFlushes, GameSaves, ModOnly, LoseToMod, LoseToBridge
  <2> QED
    BY <1>4, <1>11, <2>1, PollKeeps, FlushKeeps, SaveKeeps, LossKeeps
<1>12. CASE UNCHANGED vars
  <2>1. ModType' /\ SlotHonest'
    BY <1>12 DEF vars, modVars, DInv, ModType, SlotHonest
  <2>2. DInv'
    BY <1>12, <2>1 DEF vars, modVars, DInv
  <2> QED
    BY <1>4, <1>12, <2>2 DEF vars, modVars, bounds
<1> QED
  BY <1>5, <1>6, <1>7, <1>8, <1>9, <1>10, <1>11, <1>12 DEF Next, Promise!MailNext

(* The session, the queues and the slot keep their types and their order,   *)
(* whatever is lost, loaded, saved or restarted: no panic of send_slot can  *)
(* be brought about by this mod.                                            *)
THEOREM DeliveryInvariant ==
    ASSUME Patient
    PROVE  Spec => []DInv
<1>1. Init => DInv
  BY InitImplements
<1>2. DInv /\ [Next]_vars => DInv'
  BY StepImplements
<1> QED
  BY <1>1, <1>2, PTL DEF Spec

(* The transfer protocol implements the mailbox: `delivered` is said only   *)
(* of a snapshot the mod stored, `rejected` only of one it refused, only    *)
(* the planner starts a transfer that is over again, and a delivery is      *)
(* taken back only when the mod has let the snapshot go at some time.       *)
THEOREM DeliveryImplementsMailbox ==
    ASSUME Patient
    PROVE  Spec => MailboxKept
<1>1. Init => DInv /\ Promise!MailInit
  BY InitImplements
<1>2. DInv /\ [Next]_vars => DInv' /\ [Promise!MailNext]_(Promise!mail)
  BY StepImplements
<1> QED
  BY <1>1, <1>2, PTL DEF Spec, MailboxKept, Promise!MailSpec

-----------------------------------------------------------------------------
(* Counting full-size datagrams.                                            *)

FullAfter(queue, n) == {k \in (n + 1)..Len(queue) : FullSize(queue[k])}

LEMMA CountNat ==
    ASSUME NEW queue, Len(queue) \in Nat, NEW n \in Nat
    PROVE  /\ IsFiniteSet(FullAfter(queue, n))
           /\ FullSizeAfter(queue, n) = Cardinality(FullAfter(queue, n))
           /\ FullSizeAfter(queue, n) \in Nat
<1>1. Len(queue) \in Int /\ n + 1 \in Int
  OBVIOUS
<1>2. IsFiniteSet((n + 1)..Len(queue))
  BY <1>1, FS_Interval
<1>3. FullAfter(queue, n) \in SUBSET ((n + 1)..Len(queue))
  BY DEF FullAfter
<1>4. IsFiniteSet(FullAfter(queue, n))
  BY <1>2, <1>3, FS_Subset
<1> QED
  BY <1>4, FS_CardinalityType DEF FullSizeAfter, FullAfter

(* What follows n in the one queue is what follows m in the other. *)
SameAfter(a, n, b, m) ==
    /\ Len(a) - n = Len(b) - m
    /\ \A k \in 1..(Len(a) - n) : a[n + k] = b[m + k]

(* The count looks at the datagrams only, not at where they stand.          *)
LEMMA CountShifted ==
    ASSUME NEW a, Len(a) \in Nat, NEW b, Len(b) \in Nat, NEW n \in Nat, NEW m \in Nat,
           SameAfter(a, n, b, m)
    PROVE  FullSizeAfter(a, n) = FullSizeAfter(b, m)
<1> DEFINE A == FullAfter(a, n)
           B == FullAfter(b, m)
           f == [k \in A |-> k - n + m]
<1>1. Len(a) \in Nat /\ Len(b) \in Nat
  OBVIOUS
<1>11. /\ Len(a) - n = Len(b) - m
       /\ \A k \in 1..(Len(a) - n) : a[n + k] = b[m + k]
  BY DEF SameAfter
<1>10. /\ IsFiniteSet(A) /\ FullSizeAfter(a, n) = Cardinality(A)
       /\ FullSizeAfter(b, m) = Cardinality(B)
  BY CountNat
<1>2. ASSUME NEW k \in A PROVE k - n + m \in B
  <2>1. k \in (n + 1)..Len(a) /\ FullSize(a[k])
    BY DEF FullAfter
  <2>2. k - n \in 1..(Len(a) - n) /\ n + (k - n) = k /\ m + (k - n) = k - n + m
    BY <1>1, <2>1
  <2>3. a[k] = b[k - n + m]
    BY <1>11, <2>2
  <2>4. k - n + m \in (m + 1)..Len(b)
    BY <1>1, <1>11, <2>1
  <2> QED
    BY <2>1, <2>3, <2>4 DEF FullAfter
<1>3. ASSUME NEW j \in B PROVE j - m + n \in A /\ (j - m + n) - n + m = j
  <2>1. j \in (m + 1)..Len(b) /\ FullSize(b[j])
    BY DEF FullAfter
  <2>2. j - m \in 1..(Len(a) - n) /\ m + (j - m) = j /\ n + (j - m) = j - m + n
    BY <1>1, <1>11, <2>1
  <2>3. b[j] = a[j - m + n]
    BY <1>11, <2>2
  <2>4. j - m + n \in (n + 1)..Len(a) /\ (j - m + n) - n + m = j
    BY <1>1, <1>11, <2>1
  <2> QED
    BY <2>1, <2>3, <2>4 DEF FullAfter
<1>4. A \subseteq Int /\ B \subseteq Int
  BY <1>1 DEF FullAfter
<1> HIDE DEF A, B
<1>5. f \in [A -> B]
  BY <1>2
<1>6. \A x, y \in A : f[x] = f[y] => x = y
  BY <1>4
<1>7. \A j \in B : \E k \in A : f[k] = j
  BY <1>3
<1>8. f \in Bijection(A, B)
  BY <1>5, <1>6, <1>7 DEF Bijection, Injection, Surjection, IsInjective
<1>9. ExistsBijection(A, B)
  BY <1>8 DEF ExistsBijection
<1> QED
  BY <1>9, <1>10, FS_Bijection

LEMMA CountLess ==
    ASSUME NEW queue, Len(queue) \in Nat, NEW n \in Nat, NEW m \in Nat, m <= n
    PROVE  FullSizeAfter(queue, n) <= FullSizeAfter(queue, m)
<1>1. FullAfter(queue, n) \in SUBSET FullAfter(queue, m)
  BY DEF FullAfter
<1>2. /\ IsFiniteSet(FullAfter(queue, m))
      /\ FullSizeAfter(queue, n) = Cardinality(FullAfter(queue, n))
      /\ FullSizeAfter(queue, m) = Cardinality(FullAfter(queue, m))
  BY CountNat
<1> QED
  BY <1>1, <1>2, FS_Subset

LEMMA CountNone ==
    ASSUME NEW queue, Len(queue) \in Nat
    PROVE  FullSizeAfter(queue, Len(queue)) = 0
<1>1. FullAfter(queue, Len(queue)) = {}
  BY DEF FullAfter
<1> QED
  BY <1>1, FS_EmptySet, CountNat

LEMMA CountJoined ==
    ASSUME NEW a \in Seq(BridgeDatagrams), NEW b \in Seq(BridgeDatagrams), NEW n \in 0..Len(a)
    PROVE  FullSizeAfter(a \o b, n) = FullSizeAfter(a, n) + FullSizeAfter(b, 0)
<1> DEFINE ab == a \o b
<1>1. /\ ab \in Seq(BridgeDatagrams) /\ Len(ab) = Len(a) + Len(b) /\ Len(a) \in Nat /\ Len(b) \in Nat
      /\ \A k \in 1..Len(a) : ab[k] = a[k]
      /\ \A k \in 1..Len(b) : ab[Len(a) + k] = b[k]
  OBVIOUS
<1> HIDE DEF ab
<1>2. FullSizeAfter(ab, Len(a)) = FullSizeAfter(b, 0)
  <2>1. Len(ab) \in Nat /\ Len(ab) - Len(a) = Len(b) - 0 /\ 0 \in Nat
    BY <1>1
  <2>2. SameAfter(ab, Len(a), b, 0)
    <3> SUFFICES ASSUME NEW k \in 1..Len(b) PROVE ab[Len(a) + k] = b[0 + k]
      BY <1>1, <2>1 DEF SameAfter
    <3>1. 0 + k = k
      BY <1>1
    <3> QED
      BY <1>1, <3>1
  <2> QED
    BY <1>1, <2>1, <2>2, CountShifted
<1>3. FullAfter(ab, n) = FullAfter(a, n) \cup FullAfter(ab, Len(a))
  BY <1>1 DEF FullAfter
<1>4. FullAfter(a, n) \cap FullAfter(ab, Len(a)) = {}
  BY <1>1 DEF FullAfter
<1>5. /\ IsFiniteSet(FullAfter(a, n)) /\ IsFiniteSet(FullAfter(ab, Len(a)))
      /\ FullSizeAfter(a, n) = Cardinality(FullAfter(a, n))
      /\ FullSizeAfter(ab, n) = Cardinality(FullAfter(ab, n))
      /\ FullSizeAfter(ab, Len(a)) = Cardinality(FullAfter(ab, Len(a)))
      /\ FullSizeAfter(a, n) \in Nat /\ FullSizeAfter(ab, Len(a)) \in Nat
  <2>1. Len(ab) \in Nat /\ n \in Nat
    BY <1>1
  <2> QED
    BY <1>1, <2>1, CountNat
<1>6. Cardinality(FullAfter(ab, n)) =
        Cardinality(FullAfter(a, n)) + Cardinality(FullAfter(ab, Len(a)))
        - Cardinality(FullAfter(a, n) \cap FullAfter(ab, Len(a)))
  BY <1>3, <1>5, FS_Union
<1>7. Cardinality(FullAfter(a, n) \cap FullAfter(ab, Len(a))) = 0
  BY <1>4, FS_EmptySet
<1> QED
  BY <1>2, <1>5, <1>6, <1>7 DEF ab

LEMMA CountAppended ==
    ASSUME NEW a \in Seq(BridgeDatagrams), NEW d \in BridgeDatagrams
    PROVE  FullSizeAfter(Append(a, d), 0) = FullSizeAfter(a, 0) + (IF FullSize(d) THEN 1 ELSE 0)
<1>1. <<d>> \in Seq(BridgeDatagrams) /\ Len(<<d>>) = 1 /\ <<d>>[1] = d
  OBVIOUS
<1>2. Append(a, d) = a \o <<d>>
  OBVIOUS
<1>3. FullAfter(<<d>>, 0) = IF FullSize(d) THEN {1} ELSE {}
  BY <1>1 DEF FullAfter
<1>4. FullSizeAfter(<<d>>, 0) = IF FullSize(d) THEN 1 ELSE 0
  <2>1. FullSizeAfter(<<d>>, 0) = Cardinality(FullAfter(<<d>>, 0))
    BY <1>1, CountNat
  <2>2. Cardinality({1}) = 1 /\ Cardinality({}) = 0
    BY FS_EmptySet, FS_Singleton
  <2> QED
    BY <1>3, <2>1, <2>2
<1>5. 0 \in 0..Len(a)
  OBVIOUS
<1> QED
  BY <1>1, <1>2, <1>4, <1>5, CountJoined

LEMMA CountAll ==
    ASSUME NEW a \in Seq(BridgeDatagrams), \A k \in 1..Len(a) : FullSize(a[k])
    PROVE  FullSizeAfter(a, 0) = Len(a)
<1>1. Len(a) \in Nat
  OBVIOUS
<1>2. FullAfter(a, 0) = 1..Len(a)
  BY <1>1 DEF FullAfter
<1>3. Cardinality(1..Len(a)) = Len(a)
  <2>1. Cardinality(1..Len(a)) = IF 1 > Len(a) THEN 0 ELSE Len(a) - 1 + 1
    BY <1>1, FS_Interval
  <2> QED
    BY <1>1, <2>1
<1>4. FullSizeAfter(a, 0) = Cardinality(FullAfter(a, 0))
  BY <1>1, CountNat
<1> QED
  BY <1>2, <1>3, <1>4

(* A queue is what it begins with, and the rest. *)
LEMMA CountSplit ==
    ASSUME NEW queue \in Seq(BridgeDatagrams), NEW n \in 0..Len(queue)
    PROVE  FullSizeAfter(queue, 0)
             = FullSizeAfter(SubSeq(queue, 1, n), 0) + FullSizeAfter(queue, n)
<1> DEFINE a == SubSeq(queue, 1, n)
<1>1. /\ Len(queue) \in Nat /\ n \in Nat /\ n <= Len(queue)
      /\ \A i \in 1..Len(queue) : queue[i] \in BridgeDatagrams
  OBVIOUS
<1>2. Len(a) = n /\ \A i \in 1..n : a[i] = queue[i]
  BY <1>1
<1> HIDE DEF a
<1>3. FullAfter(queue, 0) = FullAfter(a, 0) \cup FullAfter(queue, n)
  <2>1. ASSUME NEW i \in 1..Len(queue) PROVE i \in 1..n \/ i \in (n + 1)..Len(queue)
    BY <1>1
  <2>2. (n + 1)..Len(queue) \subseteq 1..Len(queue) /\ 1..n \subseteq 1..Len(queue)
    BY <1>1
  <2>3. /\ FullAfter(queue, 0) = {i \in 1..Len(queue) : FullSize(queue[i])}
        /\ FullAfter(a, 0) = {i \in 1..n : FullSize(a[i])}
    BY <1>2 DEF FullAfter
  <2> QED
    BY <1>2, <2>1, <2>2, <2>3 DEF FullAfter
<1>4. FullAfter(a, 0) \cap FullAfter(queue, n) = {}
  <2>1. FullAfter(a, 0) \subseteq 1..n /\ FullAfter(queue, n) \subseteq (n + 1)..Len(queue)
    BY <1>2 DEF FullAfter
  <2>2. 1..n \cap (n + 1)..Len(queue) = {}
    BY <1>1
  <2> QED
    BY <2>1, <2>2
<1>5. /\ IsFiniteSet(FullAfter(a, 0)) /\ IsFiniteSet(FullAfter(queue, n))
      /\ FullSizeAfter(a, 0) = Cardinality(FullAfter(a, 0))
      /\ FullSizeAfter(queue, 0) = Cardinality(FullAfter(queue, 0))
      /\ FullSizeAfter(queue, n) = Cardinality(FullAfter(queue, n))
      /\ FullSizeAfter(a, 0) \in Nat /\ FullSizeAfter(queue, n) \in Nat
  <2>1. Len(a) \in Nat
    BY <1>1, <1>2
  <2> QED
    BY <1>1, <2>1, CountNat
<1>6. Cardinality(FullAfter(queue, 0)) =
        Cardinality(FullAfter(a, 0)) + Cardinality(FullAfter(queue, n))
        - Cardinality(FullAfter(a, 0) \cap FullAfter(queue, n))
  BY <1>3, <1>5, FS_Union
<1>7. Cardinality(FullAfter(a, 0) \cap FullAfter(queue, n)) = 0
  BY <1>4, FS_EmptySet
<1> QED
  BY <1>5, <1>6, <1>7 DEF a

(* A datagram less is none more of full size. *)
LEMMA CountRemoved ==
    ASSUME NEW queue \in Seq(BridgeDatagrams), NEW k \in 1..Len(queue)
    PROVE  FullSizeAfter(RemoveAt(queue, k), 0) <= FullSizeAfter(queue, 0)
<1> DEFINE a == SubSeq(queue, 1, k - 1)
           b == SubSeq(queue, k + 1, Len(queue))
<1>1. Len(queue) \in Nat /\ k \in Nat /\ k >= 1 /\ k <= Len(queue)
      /\ \A i \in 1..Len(queue) : queue[i] \in BridgeDatagrams
  OBVIOUS
<1>2. a \in Seq(BridgeDatagrams) /\ Len(a) = k - 1
  BY <1>1, SubSeqProperties
<1>4. b \in Seq(BridgeDatagrams) /\ Len(b) = Len(queue) - k
      /\ \A i \in 1..(Len(queue) - k) : b[i] = queue[k + i]
  <2>1. k + 1 \in Int /\ Len(queue) \in Int
        /\ \A i \in (k + 1)..Len(queue) : queue[i] \in BridgeDatagrams
    BY <1>1
  <2>2. /\ b \in Seq(BridgeDatagrams)
        /\ Len(b) = IF k + 1 <= Len(queue) THEN Len(queue) - (k + 1) + 1 ELSE 0
        /\ \A i \in 1..(Len(queue) - (k + 1) + 1) : b[i] = queue[(k + 1) + i - 1]
    BY <2>1, SubSeqProperties
  <2>5. Len(b) = Len(queue) - k
    <3> HIDE DEF b
    <3> QED
      BY <1>1, <2>2
  <2>6. ASSUME NEW i \in 1..(Len(queue) - k) PROVE b[i] = queue[k + i]
    <3>1. i \in 1..(Len(queue) - (k + 1) + 1) /\ (k + 1) + i - 1 = k + i
      BY <1>1
    <3> HIDE DEF b
    <3> QED
      BY <2>2, <3>1
  <2> QED
    BY <2>2, <2>5, <2>6
<1>5. RemoveAt(queue, k) = a \o b
  BY DEF RemoveAt
<1>6. FullSizeAfter(queue, 0) = FullSizeAfter(a, 0) + FullSizeAfter(queue, k - 1)
  <2>1. k - 1 \in 0..Len(queue)
    BY <1>1
  <2> HIDE DEF b
  <2> QED
    BY <2>1, CountSplit
<1> HIDE DEF a, b
<1>7. FullSizeAfter(b, 0) = FullSizeAfter(queue, k)
  <2>1. Len(b) \in Nat /\ 0 \in Nat
    BY <1>1, <1>4
  <2>2. SameAfter(b, 0, queue, k)
    <3> SUFFICES ASSUME NEW i \in 1..(Len(queue) - k) PROVE b[0 + i] = queue[k + i]
      BY <1>1, <1>4 DEF SameAfter
    <3>1. 0 + i = i
      BY <1>1
    <3> QED
      BY <1>4, <3>1
  <2> QED
    BY <1>1, <2>1, <2>2, CountShifted
<1>8. FullSizeAfter(queue, k) <= FullSizeAfter(queue, k - 1)
  <2>1. k - 1 \in Nat /\ k - 1 <= k
    BY <1>1
  <2> QED
    BY <1>1, <2>1, CountLess
<1>9. FullSizeAfter(a \o b, 0) = FullSizeAfter(a, 0) + FullSizeAfter(b, 0)
  <2>1. 0 \in 0..Len(a)
    BY <1>1, <1>2
  <2> QED
    BY <1>2, <1>4, <2>1, CountJoined
<1>10. /\ FullSizeAfter(a, 0) \in Nat /\ FullSizeAfter(queue, k) \in Nat
       /\ FullSizeAfter(queue, k - 1) \in Nat
  <2>1. Len(a) \in Nat /\ 0 \in Nat /\ k - 1 \in Nat
    BY <1>1, <1>2
  <2> QED
    BY <1>1, <2>1, CountNat
<1> QED
  BY <1>5, <1>6, <1>7, <1>8, <1>9, <1>10

(* The first of the batch is handed over. *)
LEMMA CountTail ==
    ASSUME NEW queue \in Seq(BridgeDatagrams), NEW n \in 1..Len(queue)
    PROVE  FullSizeAfter(Tail(queue), n - 1) = FullSizeAfter(queue, n)
<1> DEFINE t == Tail(queue)
<1>1. Len(queue) \in Nat /\ n \in Nat /\ n >= 1 /\ n <= Len(queue) /\ queue # <<>>
  OBVIOUS
<1>2. Len(t) = Len(queue) - 1 /\ \A i \in 1..(Len(queue) - 1) : t[i] = queue[i + 1]
  BY <1>1
<1> HIDE DEF t
<1>3. SameAfter(t, n - 1, queue, n)
  <2> SUFFICES ASSUME NEW k \in 1..(Len(queue) - n) PROVE t[(n - 1) + k] = queue[n + k]
    <3>1. Len(t) - (n - 1) = Len(queue) - n
      BY <1>1, <1>2
    <3> QED
      BY <3>1 DEF SameAfter
  <2>1. (n - 1) + k \in 1..(Len(queue) - 1) /\ ((n - 1) + k) + 1 = n + k
    BY <1>1
  <2> QED
    BY <1>2, <2>1
<1>4. Len(t) \in Nat /\ n - 1 \in Nat
  BY <1>1, <1>2
<1>5. FullSizeAfter(t, n - 1) = FullSizeAfter(queue, n)
  BY <1>1, <1>3, <1>4, CountShifted
<1> QED
  BY <1>5 DEF t

-----------------------------------------------------------------------------
(* What a session has sent, and may send before it is heard again.          *)

(* What a session that has not been answered can still send: what is left   *)
(* of its window, and its probes if it knows of a mod at all.               *)
Usable(s) == IF s.link = "none" THEN 0 ELSE s.probesLeft

Burden(s) == FullSizeAfter(s.out, 0) + Unsent(s) + Usable(s)

(* Nobody is probed or sent to before the mod was heard. *)
LinkKnown(s) == s.link = "none" => s.phase \notin {"probing", "sending"}

(* A session that was heard, and says what it has sent since. *)
Tallied(s) ==
    /\ s.link # "none"
    /\ FullSizeAfter(s.out, 0) = Len(s.chunksUnheard) + s.probesUnheard

LEMMA BurdenNat ==
    ASSUME NEW s, Good(s)
    PROVE  /\ FullSizeAfter(s.out, 0) \in Nat /\ Unsent(s) \in Nat
           /\ Usable(s) \in Nat /\ Usable(s) <= s.probesLeft /\ s.probesLeft \in Nat
           /\ Burden(s) \in Nat
<1>1. s.probesLeft \in Nat /\ s.out \in Seq(BridgeDatagrams)
  BY Fields DEF Good
<1>2. Len(s.out) \in Nat /\ 0 \in Nat
  BY <1>1
<1>3. FullSizeAfter(s.out, 0) \in Nat
  BY <1>2, CountNat
<1>4. Unsent(s) \in Nat
  BY UnsentNat
<1>5. Usable(s) \in Nat /\ Usable(s) <= s.probesLeft
  BY <1>1 DEF Usable
<1> QED
  BY <1>1, <1>3, <1>4, <1>5 DEF Burden

(* Whatever the mod said: what was sent since and what may follow fit a     *)
(* window and a burst.                                                      *)
LEMMA TalliedBurden ==
    ASSUME NEW s, Good(s), Tallied(s)
    PROVE  Burden(s) <= WINDOW_CHUNKS + PROBE_BURST /\ LinkKnown(s)
<1>1. /\ FullSizeAfter(s.out, 0) = Len(s.chunksUnheard) + s.probesUnheard
      /\ Usable(s) = s.probesLeft /\ LinkKnown(s)
  BY DEF Tallied, Usable, LinkKnown
<1>2. /\ Len(s.chunksUnheard) + Unsent(s) <= WINDOW_CHUNKS
      /\ s.probesUnheard + s.probesLeft <= PROBE_BURST
  BY DEF Good, BudgetKept
<1>3. s.probesUnheard \in Nat /\ s.probesLeft \in Nat /\ s.chunksUnheard \in Seq(BridgeDatagrams)
  BY Fields DEF Good
<1>4. Len(s.chunksUnheard) \in Nat /\ Unsent(s) \in Nat
  BY <1>3, UnsentNat
<1> QED
  BY <1>1, <1>2, <1>3, <1>4, BridgeAssumption DEF Burden

(* A session that has sent nothing more. *)
LEMMA StillTallied ==
    ASSUME NEW s, Tallied(s), NEW t, t.link = s.link, t.out = s.out,
           t.chunksUnheard = s.chunksUnheard, t.probesUnheard = s.probesUnheard
    PROVE  Tallied(t)
BY DEF Tallied

LEMMA StopTallied ==
    ASSUME NEW s \in SessionType, Tallied(s), NEW phase
    PROVE  Tallied(Stop(s, phase)) /\ Tallied(SetDelivered(s))
<1> DEFINE u == Stop(s, phase)
           t == SetDelivered(s)
<1>1. /\ u.link = s.link /\ u.out = s.out
      /\ u.chunksUnheard = s.chunksUnheard /\ u.probesUnheard = s.probesUnheard
  BY DEF Stop, SessionType
<1>2. /\ t.link = s.link /\ t.out = s.out
      /\ t.chunksUnheard = s.chunksUnheard /\ t.probesUnheard = s.probesUnheard
  BY DEF SetDelivered, Stop, SessionType
<1>3. Tallied(u)
  <2> HIDE DEF u
  <2> QED
    BY <1>1, StillTallied
<1>4. Tallied(t)
  <2> HIDE DEF t
  <2> QED
    BY <1>2, StillTallied
<1> QED
  BY <1>3, <1>4

(* A probe is a datagram of full size, and one of the budget. *)
LEMMA ProbeTickSends ==
    ASSUME NEW s \in SessionType, s.phase = "probing" => s.id \in Ids
    PROVE  LET t == ProbeTick(s)
           IN  /\ t.phase = s.phase /\ t.link = s.link /\ t.chunksUnheard = s.chunksUnheard
               /\ t.window = s.window /\ t.cursor = s.cursor
               /\ \/ t = s
                  \/ /\ s.phase = "probing"
                     /\ s.probesLeft > 0 /\ t.probesLeft = s.probesLeft - 1
                     /\ t.probesUnheard = s.probesUnheard + 1
                     /\ FullSizeAfter(t.out, 0) = FullSizeAfter(s.out, 0) + 1
<1> DEFINE t == ProbeTick(s)
<1>1. CASE s.phase = "probing" /\ s.probesLeft > 0 /\ s.probeAge # "fresh"
  <2>1. Probe(s.id) \in BridgeDatagrams /\ FullSize(Probe(s.id))
    BY <1>1, ProbeType DEF FullSize, Probe
  <2>2. /\ t.phase = s.phase /\ t.link = s.link /\ t.chunksUnheard = s.chunksUnheard
        /\ t.window = s.window /\ t.cursor = s.cursor
        /\ t.probesLeft = s.probesLeft - 1 /\ t.probesUnheard = s.probesUnheard + 1
        /\ t.out = Append(s.out, Probe(s.id))
    BY <1>1 DEF ProbeTick, SessionType
  <2>3. s.out \in Seq(BridgeDatagrams)
    BY Fields
  <2>4. FullSizeAfter(Append(s.out, Probe(s.id)), 0) = FullSizeAfter(s.out, 0) + 1
    BY <2>1, <2>3, CountAppended
  <2> HIDE DEF t
  <2>5. /\ t.phase = s.phase /\ t.link = s.link /\ t.chunksUnheard = s.chunksUnheard
        /\ t.window = s.window /\ t.cursor = s.cursor
        /\ s.phase = "probing"
        /\ s.probesLeft > 0 /\ t.probesLeft = s.probesLeft - 1
        /\ t.probesUnheard = s.probesUnheard + 1
        /\ FullSizeAfter(t.out, 0) = FullSizeAfter(s.out, 0) + 1
    BY <1>1, <2>2, <2>4
  <2> QED
    BY <2>5 DEF t
<1>2. CASE ~(s.phase = "probing" /\ s.probesLeft > 0 /\ s.probeAge # "fresh")
  <2>1. t = s
    BY <1>2 DEF ProbeTick
  <2> QED
    BY <2>1
<1> QED
  BY <1>1, <1>2

LEMMA ProbeTickTallied ==
    ASSUME NEW s \in SessionType, s.phase = "probing" => s.id \in Ids, Tallied(s)
    PROVE  Tallied(ProbeTick(s))
<1> DEFINE t == ProbeTick(s)
<1>1. /\ t.link = s.link /\ t.chunksUnheard = s.chunksUnheard
      /\ \/ t = s
         \/ /\ t.probesUnheard = s.probesUnheard + 1
            /\ FullSizeAfter(t.out, 0) = FullSizeAfter(s.out, 0) + 1
  BY ProbeTickSends
<1>2. s.probesUnheard \in Nat /\ Len(s.chunksUnheard) \in Nat
  BY Fields
<1> HIDE DEF t
<1>3. Tallied(t)
  BY <1>1, <1>2 DEF Tallied
<1> QED
  BY <1>3 DEF t

LEMMA ProbeTickBurden ==
    ASSUME NEW s, Good(s), LinkKnown(s)
    PROVE  Burden(ProbeTick(s)) <= Burden(s) /\ LinkKnown(ProbeTick(s))
<1> DEFINE t == ProbeTick(s)
<1>1. /\ t.phase = s.phase /\ t.link = s.link
      /\ t.window = s.window /\ t.cursor = s.cursor
      /\ \/ t = s
         \/ /\ s.phase = "probing"
            /\ s.probesLeft > 0 /\ t.probesLeft = s.probesLeft - 1
            /\ FullSizeAfter(t.out, 0) = FullSizeAfter(s.out, 0) + 1
  BY HeldId, ProbeTickSends DEF Good
<1>2. /\ FullSizeAfter(s.out, 0) \in Nat /\ Unsent(s) \in Nat /\ s.probesLeft \in Nat
      /\ Burden(s) \in Nat
  BY BurdenNat
<1> HIDE DEF t
<1>3. Unsent(t) = Unsent(s) /\ LinkKnown(t)
  BY <1>1 DEF Unsent, LinkKnown
<1>4. Burden(t) <= Burden(s)
  <2>1. CASE t = s
    BY <1>2, <2>1
  <2>2. CASE t # s
    <3>1. Usable(t) = s.probesLeft - 1 /\ Usable(s) = s.probesLeft
      BY <1>1, <2>2 DEF LinkKnown, Usable
    <3> QED
      BY <1>1, <1>2, <1>3, <2>2, <3>1 DEF Burden
  <2> QED
    BY <2>1, <2>2
<1> QED
  BY <1>3, <1>4 DEF t

(* A slot moves chunks from the window to the socket. *)
LEMMA SendSlotSends ==
    ASSUME NEW s, Good(s), s.phase = "sending"
    PROVE  LET t == SendSlot(s)
           IN  /\ t.link = s.link /\ t.probesLeft = s.probesLeft
               /\ t.probesUnheard = s.probesUnheard
               /\ \E n \in Nat :
                    /\ FullSizeAfter(t.out, 0) = FullSizeAfter(s.out, 0) + n
                    /\ Len(t.chunksUnheard) = Len(s.chunksUnheard) + n
                    /\ Unsent(t) = Unsent(s) - n
<1> DEFINE n == Min2(PACE_CHUNKS, Len(s.window) - s.cursor)
           chunks == [k \in 1..n |-> Chunk(s.id, s.window[s.cursor + k])]
           paced == [s EXCEPT !.out = @ \o chunks, !.cursor = @ + n,
                              !.chunksUnheard = @ \o chunks]
           ended == [paced EXCEPT
                       !.out = Append(@, EndOfWindow(s.id, s.round, s.upto)),
                       !.phase = "awaiting", !.sent = s.upto]
           t == SendSlot(s)
<1>1. t = IF paced.cursor >= Len(s.window) THEN ended ELSE paced
  BY DEF SendSlot
<1>2. s \in SessionType /\ WindowSound(s)
  BY DEF Good
<1>3. s.id \in Ids
  BY HeldId
<1>4. /\ s.cursor \in Nat /\ Len(s.window) \in Nat /\ s.cursor < Len(s.window)
      /\ s.window \in Seq(Nat)
  BY <1>2, Fields DEF WindowSound
<1>5. n \in Nat /\ n <= Len(s.window) - s.cursor
  BY <1>4, BridgeAssumption DEF Min2
<1> HIDE DEF n
<1>6. /\ chunks \in Seq(BridgeDatagrams) /\ Len(chunks) = n
      /\ \A k \in 1..Len(chunks) : FullSize(chunks[k])
  <2>1. \A k \in 1..n : /\ Chunk(s.id, s.window[s.cursor + k]) \in BridgeDatagrams
                        /\ FullSize(Chunk(s.id, s.window[s.cursor + k]))
    <3> SUFFICES ASSUME NEW k \in 1..n
                 PROVE  /\ Chunk(s.id, s.window[s.cursor + k]) \in BridgeDatagrams
                        /\ FullSize(Chunk(s.id, s.window[s.cursor + k]))
      OBVIOUS
    <3>1. s.cursor + k \in 1..Len(s.window)
      BY <1>4, <1>5
    <3>2. s.window[s.cursor + k] \in Nat
      BY <1>4, <3>1, Element
    <3>3. Chunk(s.id, s.window[s.cursor + k]) \in BridgeDatagrams
      BY <1>3, <3>2, ChunkType
    <3>4. FullSize(Chunk(s.id, s.window[s.cursor + k]))
      BY DEF FullSize, Chunk
    <3> QED
      BY <3>3, <3>4
  <2>2. chunks \in Seq(BridgeDatagrams) /\ Len(chunks) = n
    BY <1>5, <2>1
  <2>3. \A k \in 1..n : FullSize(chunks[k])
    BY <2>1
  <2> HIDE DEF chunks
  <2> QED
    BY <2>2, <2>3
<1> HIDE DEF chunks
<1>7. FullSizeAfter(chunks, 0) = n
  BY <1>6, CountAll
<1>8. s.out \in Seq(BridgeDatagrams) /\ s.chunksUnheard \in Seq(BridgeDatagrams)
  BY <1>2, Fields
<1>9. /\ s.out \o chunks \in Seq(BridgeDatagrams)
      /\ FullSizeAfter(s.out \o chunks, 0) = FullSizeAfter(s.out, 0) + n
      /\ Len(s.chunksUnheard \o chunks) = Len(s.chunksUnheard) + n
  <2>1. 0 \in 0..Len(s.out)
    BY <1>8
  <2>2. FullSizeAfter(s.out \o chunks, 0) = FullSizeAfter(s.out, 0) + FullSizeAfter(chunks, 0)
    BY <1>6, <1>8, <2>1, CountJoined
  <2>3. s.out \o chunks \in Seq(BridgeDatagrams)
    BY <1>6, <1>8, Concatenation
  <2>4. Len(s.chunksUnheard \o chunks) = Len(s.chunksUnheard) + Len(chunks)
    BY <1>6, <1>8, Concatenation
  <2> QED
    BY <1>6, <1>7, <2>2, <2>3, <2>4
<1>10. /\ paced.phase = "sending" /\ paced.window = s.window /\ paced.cursor = s.cursor + n
       /\ paced.link = s.link /\ paced.probesLeft = s.probesLeft
       /\ paced.probesUnheard = s.probesUnheard
       /\ paced.out = s.out \o chunks /\ paced.chunksUnheard = s.chunksUnheard \o chunks
  BY <1>2 DEF SessionType
<1>11. Unsent(s) = Len(s.window) - s.cursor
  BY DEF Unsent
<1>12. CASE paced.cursor >= Len(s.window)
  <2>1. s.round \in Nat /\ s.upto \in Nat
    BY <1>2, Fields DEF WindowSound
  <2>2. EndOfWindow(s.id, s.round, s.upto) \in BridgeDatagrams
        /\ ~FullSize(EndOfWindow(s.id, s.round, s.upto))
    BY <1>3, <2>1, EndOfWindowType DEF FullSize, EndOfWindow
  <2>3. FullSizeAfter(Append(s.out \o chunks, EndOfWindow(s.id, s.round, s.upto)), 0)
          = FullSizeAfter(s.out \o chunks, 0) + 0
    BY <1>9, <2>2, CountAppended
  <2>4. /\ ended.phase = "awaiting"
        /\ ended.link = s.link /\ ended.probesLeft = s.probesLeft
        /\ ended.probesUnheard = s.probesUnheard
        /\ ended.out = Append(s.out \o chunks, EndOfWindow(s.id, s.round, s.upto))
        /\ ended.chunksUnheard = s.chunksUnheard \o chunks
    BY <1>2 DEF SessionType
  <2>5. t = ended
    BY <1>1, <1>12
  <2>6. n = Len(s.window) - s.cursor
    <3>1. s.cursor + n >= Len(s.window)
      BY <1>10, <1>12
    <3> HIDE DEF paced, t
    <3> QED
      BY <1>4, <1>5, <3>1
  <2> HIDE DEF paced, ended, t
  <2>7. Unsent(t) = Unsent(s) - n
    BY <1>4, <1>11, <2>4, <2>5, <2>6 DEF Unsent
  <2>8. FullSizeAfter(s.out, 0) \in Nat
    BY BurdenNat
  <2>9. FullSizeAfter(t.out, 0) = FullSizeAfter(s.out, 0) + n
    <3>1. (FullSizeAfter(s.out, 0) + n) + 0 = FullSizeAfter(s.out, 0) + n
      BY <1>5, <2>8
    <3>2. t.out = Append(s.out \o chunks, EndOfWindow(s.id, s.round, s.upto))
      BY <2>4, <2>5
    <3>3. FullSizeAfter(s.out \o chunks, 0) = FullSizeAfter(s.out, 0) + n
      BY <1>9
    <3>4. FullSizeAfter(t.out, 0) = FullSizeAfter(s.out \o chunks, 0) + 0
      BY <2>3, <3>2
    <3> QED
      BY <3>1, <3>3, <3>4
  <2>10. /\ t.link = s.link /\ t.probesLeft = s.probesLeft
         /\ t.probesUnheard = s.probesUnheard
         /\ Len(t.chunksUnheard) = Len(s.chunksUnheard) + n
    BY <1>9, <2>4, <2>5
  <2> QED
    BY <1>5, <2>7, <2>9, <2>10 DEF t
<1>13. CASE ~(paced.cursor >= Len(s.window))
  <2>1. t = paced
    BY <1>1, <1>13
  <2> HIDE DEF paced, t
  <2>2. Unsent(t) = Len(s.window) - (s.cursor + n)
    BY <1>10, <2>1 DEF Unsent
  <2>3. Unsent(t) = Unsent(s) - n
    BY <1>4, <1>5, <1>11, <2>2
  <2> QED
    BY <1>5, <1>9, <1>10, <2>1, <2>3 DEF t
<1> QED
  BY <1>12, <1>13

LEMMA SendSlotTallied ==
    ASSUME NEW s, Good(s), s.phase = "sending", Tallied(s)
    PROVE  Tallied(SendSlot(s))
<1> DEFINE t == SendSlot(s)
<1>1. t.link = s.link /\ t.probesUnheard = s.probesUnheard
  BY SendSlotSends
<1>2. PICK n \in Nat : /\ FullSizeAfter(t.out, 0) = FullSizeAfter(s.out, 0) + n
                       /\ Len(t.chunksUnheard) = Len(s.chunksUnheard) + n
  BY SendSlotSends
<1>3. s.probesUnheard \in Nat /\ Len(s.chunksUnheard) \in Nat
  BY Fields DEF Good
<1> HIDE DEF t
<1>4. Tallied(t)
  BY <1>1, <1>2, <1>3 DEF Tallied
<1> QED
  BY <1>4 DEF t

LEMMA SendSlotBurden ==
    ASSUME NEW s, Good(s), s.phase = "sending", LinkKnown(s)
    PROVE  Burden(SendSlot(s)) <= Burden(s) /\ LinkKnown(SendSlot(s))
<1> DEFINE t == SendSlot(s)
<1>1. t.link = s.link /\ t.probesLeft = s.probesLeft
  BY SendSlotSends
<1>2. PICK n \in Nat : /\ FullSizeAfter(t.out, 0) = FullSizeAfter(s.out, 0) + n
                       /\ Unsent(t) = Unsent(s) - n
  BY SendSlotSends
<1>3. FullSizeAfter(s.out, 0) \in Nat /\ Unsent(s) \in Nat /\ Usable(s) \in Nat
  BY BurdenNat
<1> HIDE DEF t
<1>4. Usable(t) = Usable(s) /\ LinkKnown(t)
  BY <1>1 DEF Usable, LinkKnown
<1>5. Burden(t) <= Burden(s)
  BY <1>2, <1>3, <1>4 DEF Burden
<1> QED
  BY <1>4, <1>5 DEF t

(* The bookkeeping of the history does not look at the phase. *)
LEMMA EnterProbingTallied ==
    ASSUME NEW s, Good(s), s.phase # "idle", Tallied(s)
    PROVE  Tallied(EnterProbing(s))
<1> DEFINE t == [s EXCEPT !.phase = "probing", !.round = NoRound, !.upto = 0,
                          !.sent = 0, !.window = <<>>, !.cursor = 0,
                          !.previous = NoReport, !.run = 0, !.bursts = 0]
<1>1. t \in SessionType
  BY Nothing DEF Good, SessionType, Phases, NoReport
<1>2. /\ t.id = s.id /\ t.link = s.link /\ t.out = s.out
      /\ t.chunksUnheard = s.chunksUnheard /\ t.probesUnheard = s.probesUnheard
  BY DEF Good, SessionType
<1>3. s.id \in Ids
  BY HeldId
<1>4. EnterProbing(s) = ProbeTick(t)
  BY DEF EnterProbing
<1> HIDE DEF t
<1>5. Tallied(t)
  BY <1>2, StillTallied
<1> QED
  BY <1>1, <1>2, <1>3, <1>4, <1>5, ProbeTickTallied

LEMMA SendWindowTallied ==
    ASSUME NEW s, Good(s), s.phase # "idle", s.chunksUnheard = <<>>, Tallied(s),
           NEW report \in Seq(Nat),
           \A k \in DOMAIN report : report[k] < s.upto,
           ~EmptyWindow(s, report)
    PROVE  Tallied(SendWindow(s, report))
<1> DEFINE t == [BuildWindow(s, report) EXCEPT !.phase = "sending"]
<1>1. Good(t) /\ t.phase = "sending"
  BY WindowStarted
<1>2. /\ t.link = s.link /\ t.out = s.out
      /\ t.chunksUnheard = s.chunksUnheard /\ t.probesUnheard = s.probesUnheard
  BY DEF BuildWindow, Good, SessionType
<1>3. SendWindow(s, report) = SendSlot(t)
  BY DEF SendWindow
<1> HIDE DEF t
<1>4. Tallied(t)
  BY <1>2, StillTallied
<1> QED
  BY <1>1, <1>3, <1>4, SendSlotTallied

LEMMA OnHelloTallied ==
    ASSUME NEW s, Good(s), Tallied(s), NEW stored0, NEW assembling0
    PROVE  Tallied(OnHello(s, stored0, assembling0))
<1> DEFINE again == [s EXCEPT !.out = Append(@, EndOfWindow(s.id, s.round, s.upto))]
<1>1. s \in SessionType
  BY DEF Good
<1>3. Tallied(SetDelivered(s))
  BY <1>1, StopTallied
<1>4. s.phase # "idle" => Tallied(EnterProbing(s))
  BY EnterProbingTallied
<1>5. s.phase = "awaiting" => Tallied(again)
  <2> HAVE s.phase = "awaiting"
  <2>1. s.round \in Nat /\ s.upto \in Nat /\ s.id \in Ids /\ s.out \in Seq(BridgeDatagrams)
    BY <1>1, HeldId, Fields DEF Good, WindowSound
  <2>2. /\ EndOfWindow(s.id, s.round, s.upto) \in BridgeDatagrams
        /\ ~FullSize(EndOfWindow(s.id, s.round, s.upto))
    BY <2>1, EndOfWindowType DEF FullSize, EndOfWindow
  <2>3. FullSizeAfter(Append(s.out, EndOfWindow(s.id, s.round, s.upto)), 0)
          = FullSizeAfter(s.out, 0) + 0
    BY <2>1, <2>2, CountAppended
  <2>4. /\ again.link = s.link /\ again.out = Append(s.out, EndOfWindow(s.id, s.round, s.upto))
        /\ again.chunksUnheard = s.chunksUnheard /\ again.probesUnheard = s.probesUnheard
    BY <1>1 DEF SessionType
  <2>5. FullSizeAfter(s.out, 0) \in Nat
    BY BurdenNat
  <2> HIDE DEF again
  <2>6. FullSizeAfter(again.out, 0) = FullSizeAfter(s.out, 0)
    BY <2>3, <2>4, <2>5
  <2> QED
    BY <2>4, <2>6 DEF Tallied
<1> HIDE DEF again
<1>6. CASE s.phase = "idle"
  BY <1>6 DEF OnHello
<1>7. CASE s.phase # "idle" /\ stored0 = s.id
  BY <1>3, <1>7 DEF OnHello
<1>8. CASE s.phase # "idle" /\ stored0 # s.id /\ s.phase \in {"waiting", "delivered"}
  BY <1>4, <1>8 DEF OnHello
<1>9. CASE /\ s.phase # "idle" /\ stored0 # s.id
           /\ s.phase \in {"sending", "awaiting"} /\ assembling0 # s.id
  BY <1>4, <1>9 DEF OnHello
<1>10. CASE s.phase = "awaiting" /\ stored0 # s.id /\ assembling0 = s.id
  <2>1. OnHello(s, stored0, assembling0) = again
    BY <1>10 DEF OnHello, again
  <2> QED
    BY <1>5, <1>10, <2>1
<1>11. CASE /\ s.phase # "idle" /\ stored0 # s.id
            /\ s.phase \notin {"waiting", "delivered"}
            /\ ~(s.phase \in {"sending", "awaiting"} /\ assembling0 # s.id)
            /\ ~(s.phase = "awaiting" /\ assembling0 = s.id)
  BY <1>11 DEF OnHello
<1> QED
  BY <1>6, <1>7, <1>8, <1>9, <1>10, <1>11

LEMMA OnReadyTallied ==
    ASSUME NEW s, Heard(s), Tallied(s), NEW id
    PROVE  Tallied(OnReady(s, id))
<1>1. Good(s)
  BY DEF Heard
<1>2. CASE s.phase = "probing" /\ s.id = id
  <2>1. s.upto = 0 /\ Count[s.id] \in Nat \ {0}
    BY <1>1, <1>2, HeldId DEF Good, WindowSound
  <2>2. ~EmptyWindow(s, <<>>)
    BY <2>1 DEF EmptyWindow
  <2>3. Tallied(SendWindow(s, <<>>))
    BY <1>1, <1>2, <2>2, Nothing, SendWindowTallied DEF Heard
  <2> QED
    BY <1>2, <2>3 DEF OnReady
<1>3. CASE ~(s.phase = "probing" /\ s.id = id)
  BY <1>3 DEF OnReady
<1> QED
  BY <1>2, <1>3

LEMMA OnMissingTallied ==
    ASSUME NEW s, Heard(s), Tallied(s), NEW id, NEW round, NEW report \in Seq(Nat)
    PROVE  Tallied(OnMissing(s, id, round, report))
<1>1. CASE OnMissing(s, id, round, report) = s
  BY <1>1
<1>2. CASE OnMissing(s, id, round, report) # s
  <2>1. PICK t : /\ Good(t) /\ t.phase \notin {"idle", "sending"}
                 /\ t.chunksUnheard = <<>> /\ t.probesUnheard = 0
                 /\ t.out = s.out /\ t.link = s.link
                 /\ \/ OnMissing(s, id, round, report) = t
                    \/ /\ OnMissing(s, id, round, report) = SendWindow(t, report)
                       /\ \A k \in DOMAIN report : report[k] < t.upto
                       /\ ~EmptyWindow(t, report)
    BY <1>2, OnMissingCases
  <2>2. Tallied(t)
    BY <2>1, StillTallied DEF Heard
  <2> QED
    BY <2>1, <2>2, SendWindowTallied
<1> QED
  BY <1>1, <1>2

LEMMA OnMessageTallied ==
    ASSUME NEW s, Heard(s), Tallied(s), NEW d \in ModDatagrams, d.type # "V"
    PROVE  Tallied(OnMessage(s, d))
<1>1. Good(s) /\ s \in SessionType
  BY DEF Heard, Good
<1>2. ASSUME NEW id \in MaybeId
      PROVE  LET known == [s EXCEPT !.stored = id]
             IN  Good(known) /\ known \in SessionType /\ Tallied(known)
  <2> DEFINE known == [s EXCEPT !.stored = id]
  <2>1. Heard(known)
    BY NotedHeard
  <2>2. /\ known.link = s.link /\ known.out = s.out
        /\ known.chunksUnheard = s.chunksUnheard
        /\ known.probesUnheard = s.probesUnheard
    BY <1>1 DEF SessionType
  <2> HIDE DEF known
  <2>3. Good(known) /\ known \in SessionType /\ Tallied(known)
    BY <2>1, <2>2, StillTallied DEF Heard, Good
  <2> QED
    BY <2>3 DEF known
<1>3. CASE d.type = "H"
  <2> DEFINE known == [s EXCEPT !.stored = d.stored]
  <2>1. d.stored \in MaybeId /\ d.assembling \in MaybeId
    BY <1>3 DEF ModDatagrams
  <2>2. Good(known) /\ Tallied(known)
    BY <1>2, <2>1
  <2>3. OnMessage(s, d) = OnHello(known, d.stored, d.assembling)
    BY <1>3 DEF OnMessage
  <2> HIDE DEF known
  <2> QED
    BY <2>2, <2>3, OnHelloTallied
<1>4. CASE d.type = "R"
  BY <1>4, OnReadyTallied DEF OnMessage
<1>5. CASE d.type = "M"
  <2>1. d.report \in Seq(Nat)
    BY <1>5 DEF ModDatagrams, Ascending
  <2> QED
    BY <1>5, <2>1, OnMissingTallied DEF OnMessage
<1>6. CASE d.type = "A"
  <2> DEFINE known == [s EXCEPT !.stored = d.id]
  <2>1. d.id \in MaybeId
    BY <1>6 DEF ModDatagrams, MaybeId
  <2>2. known \in SessionType /\ Tallied(known)
    BY <1>2, <2>1
  <2>3. OnMessage(s, d) \in {s, known, SetDelivered(known)}
    BY <1>6 DEF OnMessage, OnAck
  <2> HIDE DEF known
  <2>4. Tallied(SetDelivered(known))
    BY <2>2, StopTallied
  <2> QED
    BY <2>2, <2>3, <2>4
<1>7. CASE d.type = "N"
  <2>1. OnMessage(s, d) \in {s, Stop(s, "rejected")}
    BY <1>7 DEF OnMessage, OnRefusal
  <2>2. Tallied(Stop(s, "rejected"))
    BY <1>1, StopTallied
  <2> QED
    BY <2>1, <2>2
<1>8. d.type \in {"H", "R", "M", "A", "N", "V"}
  BY DEF ModDatagrams
<1> QED
  BY <1>3, <1>4, <1>5, <1>6, <1>7, <1>8

LEMMA HandleMessageTallied ==
    ASSUME NEW s, Heard(s), Tallied(s), NEW d \in ModDatagrams, d.type # "V"
    PROVE  Tallied(HandleMessage(s, d))
<1> DEFINE refilledFromEmpty == Refills(s, d) /\ s.probesLeft = 0
           r == Refill(s, d)
           m == OnMessage(r, d)
           g == GiveUpProbing(m, refilledFromEmpty)
<1>1. Heard(r)
  BY RefillHeard
<1>2. /\ r.link = s.link /\ r.out = s.out
      /\ r.chunksUnheard = s.chunksUnheard /\ r.probesUnheard = s.probesUnheard
  BY DEF Refill, Heard, Good, SessionType
<1>3. HandleMessage(s, d) = ProbeTick(g)
  BY DEF HandleMessage
<1> HIDE DEF r
<1>4. Tallied(m) /\ Good(m)
  BY <1>1, <1>2, StillTallied, OnMessageTallied, OnMessageGood
<1> HIDE DEF m, refilledFromEmpty
<1>5. Good(g)
  BY <1>4, GiveUpProbingGood
<1>6. /\ g.link = m.link /\ g.out = m.out
      /\ g.chunksUnheard = m.chunksUnheard /\ g.probesUnheard = m.probesUnheard
  BY <1>4 DEF GiveUpProbing, Good, SessionType
<1> HIDE DEF g
<1>7. Tallied(g)
  BY <1>4, <1>6, StillTallied
<1>8. g \in SessionType /\ (g.phase = "probing" => g.id \in Ids)
  BY <1>5, HeldId DEF Good
<1> QED
  BY <1>3, <1>7, <1>8, ProbeTickTallied

(* Whatever the mod says, a session that had nothing left to hand over has  *)
(* then no more than a window and a burst to send.                          *)
LEMMA HandleDatagramBurden ==
    ASSUME NEW s, Good(s), s.out = <<>>, NEW d \in ModDatagrams
    PROVE  /\ Burden(HandleDatagram(s, d)) <= WINDOW_CHUNKS + PROBE_BURST
           /\ LinkKnown(HandleDatagram(s, d))
<1> DEFINE heard0 == [s EXCEPT !.chunksUnheard = <<>>, !.probesUnheard = 0]
           linked == [heard0 EXCEPT !.link = "connected"]
           other == [heard0 EXCEPT !.link = "mismatch", !.stored = NoId]
<1>1. HandleDatagram(s, d) \in IF d.type = "V"
                               THEN {other, Stop(other, "waiting")}
                               ELSE {HandleMessage(linked, d)}
  BY DEF HandleDatagram, OtherVersionHello
<1>2. s \in SessionType
  BY DEF Good
<1>3. FullSizeAfter(<<>>, 0) = 0 /\ Len(<<>>) = 0
  BY Nothing, CountNone
<1>4. Heard(heard0)
  BY HearingGood
<1>5. heard0 \in SessionType /\ heard0.out = <<>>
  BY <1>2, Nothing DEF SessionType
<1> HIDE DEF heard0
<1>6. Tallied(linked) /\ Heard(linked)
  <2>1. /\ linked \in SessionType
        /\ linked.phase = heard0.phase /\ linked.id = heard0.id
        /\ linked.upto = heard0.upto /\ linked.round = heard0.round
        /\ linked.window = heard0.window /\ linked.cursor = heard0.cursor
        /\ linked.chunksUnheard = heard0.chunksUnheard
        /\ linked.probesUnheard = heard0.probesUnheard
        /\ linked.probesLeft = heard0.probesLeft
        /\ linked.link = "connected" /\ linked.out = <<>>
    BY <1>5 DEF SessionType
  <2> HIDE DEF linked
  <2>2. Heard(linked)
    BY <1>4, <2>1, Budget, SameWindow DEF Heard
  <2>3. linked.chunksUnheard = <<>> /\ linked.probesUnheard = 0
    BY <1>4, <2>1 DEF Heard
  <2>4. Tallied(linked)
    BY <1>3, <2>1, <2>3 DEF Tallied
  <2> QED
    BY <2>2, <2>4
<1>7. Tallied(other) /\ other \in SessionType
  <2>1. /\ other \in SessionType /\ other.link = "mismatch" /\ other.out = <<>>
        /\ other.chunksUnheard = heard0.chunksUnheard
        /\ other.probesUnheard = heard0.probesUnheard
    BY <1>5 DEF SessionType, MaybeId
  <2> HIDE DEF other
  <2>2. other.chunksUnheard = <<>> /\ other.probesUnheard = 0
    BY <1>4, <2>1 DEF Heard
  <2> QED
    BY <1>3, <2>1, <2>2 DEF Tallied
<1> HIDE DEF linked, other
<1>8. Tallied(HandleDatagram(s, d))
  BY <1>1, <1>6, <1>7, HandleMessageTallied, StopTallied
<1>9. Good(HandleDatagram(s, d))
  BY HandleDatagramGood
<1> QED
  BY <1>8, <1>9, TalliedBurden

-----------------------------------------------------------------------------
(* Nobody has answered: the burden does not grow. *)

(* A session that sends what is not of full size, or nothing. *)
LEMMA SameBurden ==
    ASSUME NEW s, Good(s), LinkKnown(s), NEW t, Good(t),
           FullSizeAfter(t.out, 0) = FullSizeAfter(s.out, 0),
           t.phase \in {s.phase, "waiting", "delivered"} \/ (t.phase = "probing" /\ t.link # "none"),
           t.phase = "sending" => t.window = s.window /\ t.cursor = s.cursor,
           t.probesLeft = s.probesLeft,
           t.link = s.link \/ (s.link # "none" /\ t.link # "none")
    PROVE  Burden(t) <= Burden(s) /\ LinkKnown(t)
<1>1. Unsent(t) <= Unsent(s)
  <2>1. CASE t.phase = "sending"
    BY <2>1, UnsentNat DEF Unsent
  <2>2. CASE t.phase # "sending"
    BY <2>2, UnsentNat DEF Unsent
  <2> QED
    BY <2>1, <2>2
<1>2. Usable(t) = Usable(s)
  BY DEF Usable
<1>3. LinkKnown(t)
  BY DEF LinkKnown
<1>4. /\ Unsent(t) \in Nat /\ Unsent(s) \in Nat /\ Usable(s) \in Nat
      /\ FullSizeAfter(s.out, 0) \in Nat
  BY BurdenNat
<1> QED
  BY <1>1, <1>2, <1>3, <1>4 DEF Burden

(* A ping is a small datagram. *)
LEMMA PingedSends ==
    ASSUME NEW s \in SessionType, NEW id \in MaybeId
    PROVE  FullSizeAfter(Append(s.out, Ping(id)), 0) = FullSizeAfter(s.out, 0)
<1>1. Ping(id) \in BridgeDatagrams /\ ~FullSize(Ping(id))
  BY PingType DEF FullSize, Ping
<1>2. s.out \in Seq(BridgeDatagrams)
  BY Fields
<1>3. FullSizeAfter(Append(s.out, Ping(id)), 0) = FullSizeAfter(s.out, 0) + 0
  BY <1>1, <1>2, CountAppended
<1>4. FullSizeAfter(s.out, 0) \in Nat
  <2>1. Len(s.out) \in Nat /\ 0 \in Nat
    BY <1>2
  <2> QED
    BY <2>1, CountNat
<1> QED
  BY <1>3, <1>4

LEMMA AnnounceBurden ==
    ASSUME NEW s, Good(s), LinkKnown(s), NEW id \in MaybeId
    PROVE  Burden(Announce(s, id)) <= Burden(s) /\ LinkKnown(Announce(s, id))
<1> DEFINE t == Announce(s, id)
<1>1. Good(t)
  BY AnnounceGood
<1>2. /\ t.phase = s.phase /\ t.window = s.window /\ t.cursor = s.cursor
      /\ t.probesLeft = s.probesLeft /\ t.link = s.link /\ t.out = s.out
  BY DEF Good, SessionType, Announce
<1> HIDE DEF t
<1>3. Burden(t) <= Burden(s) /\ LinkKnown(t)
  BY <1>1, <1>2, SameBurden
<1> QED
  BY <1>3 DEF t

LEMMA PingedBurden ==
    ASSUME NEW s, Good(s), LinkKnown(s), NEW due \in BOOLEAN
    PROVE  LET t == [s EXCEPT !.out = Append(@, Ping(s.newest)), !.nudgeDue = due]
           IN  /\ Burden(t) <= Burden(s) /\ LinkKnown(t)
               /\ Good(t) /\ t.phase = s.phase
<1> DEFINE t == [s EXCEPT !.out = Append(@, Ping(s.newest)), !.nudgeDue = due]
<1>1. Good(t) /\ t.phase = s.phase
  BY PingedGood
<1>2. s \in SessionType /\ s.newest \in MaybeId
  BY Fields DEF Good
<1>3. /\ t.phase = s.phase /\ t.window = s.window /\ t.cursor = s.cursor
      /\ t.probesLeft = s.probesLeft /\ t.link = s.link
      /\ t.out = Append(s.out, Ping(s.newest))
  BY <1>2 DEF SessionType
<1>4. FullSizeAfter(Append(s.out, Ping(s.newest)), 0) = FullSizeAfter(s.out, 0)
  BY <1>2, PingedSends
<1> HIDE DEF t
<1>5. Burden(t) <= Burden(s) /\ LinkKnown(t)
  BY <1>1, <1>3, <1>4, SameBurden
<1> QED
  BY <1>1, <1>5 DEF t

LEMMA TimeBurden ==
    ASSUME NEW s, Good(s), LinkKnown(s),
           NEW t \in {ProbeAges(s), TurnsQuiet(s), NudgeComesDue(s)},
           t = TurnsQuiet(s) => s.link # "none"
    PROVE  Burden(t) <= Burden(s) /\ LinkKnown(t)
<1>1. Good(t)
  BY TimeGood
<1>2. /\ t.phase = s.phase /\ t.window = s.window /\ t.cursor = s.cursor
      /\ t.probesLeft = s.probesLeft /\ t.out = s.out
      /\ t.link = s.link \/ (s.link # "none" /\ t.link # "none")
  <2>1. s \in SessionType
    BY DEF Good
  <2>2. CASE t = ProbeAges(s)
    BY <2>1, <2>2 DEF ProbeAges, SessionType
  <2>3. CASE t = TurnsQuiet(s)
    BY <2>1, <2>3 DEF TurnsQuiet, SessionType
  <2>4. CASE t = NudgeComesDue(s)
    BY <2>1, <2>4 DEF NudgeComesDue, SessionType
  <2> QED
    BY <2>2, <2>3, <2>4
<1> QED
  BY <1>1, <1>2, SameBurden

LEMMA HandleTimeoutBurden ==
    ASSUME NEW s, Good(s), LinkKnown(s), NEW pingDue \in BOOLEAN, NEW slotDue \in BOOLEAN
    PROVE  LET t == HandleTimeout(s, pingDue, slotDue)
           IN  Burden(t) <= Burden(s) /\ LinkKnown(t)
<1> DEFINE ping == [s EXCEPT !.out = Append(@, Ping(s.newest))]
           pinged == IF pingDue THEN ping ELSE s
           t == HandleTimeout(s, pingDue, slotDue)
<1>1. Burden(ping) <= Burden(s) /\ LinkKnown(ping) /\ Good(ping) /\ ping.phase = s.phase
  <2>1. s \in SessionType /\ s.nudgeDue \in BOOLEAN
    BY DEF Good, SessionType
  <2>2. ping = [s EXCEPT !.out = Append(@, Ping(s.newest)), !.nudgeDue = s.nudgeDue]
    BY <2>1 DEF SessionType
  <2> QED
    BY <2>1, <2>2, PingedBurden
<1>2. t = CASE s.phase = "sending" /\ slotDue -> SendSlot(pinged)
            [] s.phase = "probing" -> ProbeTick(pinged)
            [] OTHER -> pinged
  BY DEF HandleTimeout
<1>3. Burden(s) \in Nat
  BY BurdenNat
<1> HIDE DEF ping, t
<1>4. Good(pinged) /\ LinkKnown(pinged) /\ pinged.phase = s.phase
      /\ Burden(pinged) <= Burden(s) /\ Burden(pinged) \in Nat
  BY <1>1, <1>3, BurdenNat
<1> HIDE DEF pinged
<1>5. CASE s.phase = "sending" /\ slotDue
  <2>1. /\ Burden(SendSlot(pinged)) <= Burden(pinged) /\ LinkKnown(SendSlot(pinged))
        /\ Burden(SendSlot(pinged)) \in Nat
    BY <1>4, <1>5, SendSlotBurden, SendSlotGood, BurdenNat
  <2>2. t = SendSlot(pinged)
    BY <1>2, <1>5
  <2>3. Burden(t) <= Burden(s) /\ LinkKnown(t)
    BY <1>3, <1>4, <2>1, <2>2
  <2> QED
    BY <2>3 DEF t
<1>6. CASE s.phase = "probing"
  <2>1. /\ Burden(ProbeTick(pinged)) <= Burden(pinged) /\ LinkKnown(ProbeTick(pinged))
        /\ Burden(ProbeTick(pinged)) \in Nat
    BY <1>4, ProbeTickBurden, ProbeTickGood, BurdenNat
  <2>2. t = ProbeTick(pinged)
    BY <1>2, <1>6
  <2>3. Burden(t) <= Burden(s) /\ LinkKnown(t)
    BY <1>3, <1>4, <2>1, <2>2
  <2> QED
    BY <2>3 DEF t
<1>7. CASE ~(s.phase = "sending" /\ slotDue) /\ s.phase # "probing"
  <2>1. t = pinged
    BY <1>2, <1>7
  <2> QED
    BY <1>4, <2>1 DEF t
<1> QED
  BY <1>5, <1>6, <1>7

LEMMA ReceiveSnapshotBurden ==
    ASSUME NEW s, Good(s), LinkKnown(s), NEW id \in Ids
    PROVE  /\ Burden(ReceiveSnapshot(s, id)) <= Burden(s)
           /\ LinkKnown(ReceiveSnapshot(s, id))
<1> DEFINE told == [s EXCEPT !.newest = id]
           nudged == Nudge(told)
           fresh == NewTransfer(nudged, id)
           probing == [fresh EXCEPT !.phase = "probing", !.round = NoRound, !.upto = 0,
                          !.sent = 0, !.window = <<>>, !.cursor = 0,
                          !.previous = NoReport, !.run = 0, !.bursts = 0]
<1>1. /\ Good(told) /\ LinkKnown(told) /\ Burden(told) <= Burden(s)
      /\ told.link = s.link /\ told.phase = s.phase
  <2>1. id \in MaybeId /\ told = Announce(s, id)
    BY DEF Announce, MaybeId
  <2>2. told.link = s.link /\ told.phase = s.phase
    BY DEF Good, SessionType
  <2> HIDE DEF told
  <2> QED
    BY <2>1, <2>2, AnnounceGood, AnnounceBurden
<1>2. \/ ReceiveSnapshot(s, id) \in {nudged, fresh, SetDelivered(fresh)}
      \/ s.link = "connected" /\ ReceiveSnapshot(s, id) = ProbeTick(probing)
  <2>1. ReceiveSnapshot(s, id) =
          IF s.id = id /\ s.phase \in InProgress \cup {"waiting", "delivered"}
          THEN nudged
          ELSE IF s.link # "mismatch" /\ s.stored = id
          THEN SetDelivered(fresh)
          ELSE IF s.link = "connected" THEN EnterProbing(fresh) ELSE fresh
    BY DEF ReceiveSnapshot
  <2>2. EnterProbing(fresh) = ProbeTick(probing)
    BY DEF EnterProbing
  <2> HIDE DEF nudged, fresh, probing
  <2> QED
    BY <2>1, <2>2
<1> HIDE DEF told
<1>3. /\ Good(nudged) /\ LinkKnown(nudged) /\ Burden(nudged) <= Burden(told)
      /\ nudged.link = s.link
  <2>1. CASE told.nudgeDue
    <3>1. nudged = [told EXCEPT !.out = Append(@, Ping(told.newest)), !.nudgeDue = FALSE]
      BY <2>1 DEF Nudge
    <3>2. nudged.link = told.link
      BY <1>1, <3>1 DEF Good, SessionType
    <3> QED
      BY <1>1, <3>1, <3>2, PingedBurden
  <2>2. CASE ~told.nudgeDue
    <3>1. nudged = told
      BY <2>2 DEF Nudge
    <3> QED
      BY <1>1, <3>1, BurdenNat
  <2> QED
    BY <2>1, <2>2
<1> HIDE DEF nudged
<1>4. Good(fresh) /\ fresh.phase = "waiting"
  BY <1>3, NewTransferGood
<1>5. fresh.out = nudged.out /\ fresh.probesLeft = nudged.probesLeft /\ fresh.link = nudged.link
  BY <1>3 DEF NewTransfer, Good, SessionType
<1> HIDE DEF fresh
<1>6. Burden(fresh) <= Burden(nudged) /\ LinkKnown(fresh)
  BY <1>3, <1>4, <1>5, SameBurden
<1>7. Burden(SetDelivered(fresh)) <= Burden(nudged) /\ LinkKnown(SetDelivered(fresh))
  <2> DEFINE t == SetDelivered(fresh)
  <2>1. Good(t)
    BY <1>4, SetDeliveredGood
  <2>2. /\ t.phase = "delivered" /\ t.out = fresh.out
        /\ t.probesLeft = fresh.probesLeft /\ t.link = fresh.link
    BY <1>4 DEF SetDelivered, Stop, Good, SessionType
  <2> HIDE DEF t
  <2>3. Burden(t) <= Burden(nudged) /\ LinkKnown(t)
    BY <1>3, <1>5, <2>1, <2>2, SameBurden
  <2> QED
    BY <2>3 DEF t
<1>8. s.link = "connected" =>
        Burden(ProbeTick(probing)) <= Burden(nudged) /\ LinkKnown(ProbeTick(probing))
  <2> HAVE s.link = "connected"
  <2>1. fresh \in SessionType /\ fresh.id \in Ids /\ Count[fresh.id] \in Nat
    BY <1>4, HeldId DEF Good
  <2>2. /\ probing \in SessionType /\ probing.phase = "probing" /\ probing.id = fresh.id
        /\ probing.upto = 0 /\ probing.window = <<>>
        /\ probing.chunksUnheard = fresh.chunksUnheard
        /\ probing.probesUnheard = fresh.probesUnheard
        /\ probing.probesLeft = fresh.probesLeft
        /\ probing.out = fresh.out /\ probing.link = fresh.link
    BY <2>1, Nothing DEF SessionType, Phases, NoReport
  <2> HIDE DEF probing
  <2>3. Good(probing)
    BY <1>4, <2>1, <2>2, NoWindow, Budget
  <2>4. Burden(probing) <= Burden(nudged) /\ LinkKnown(probing)
    BY <1>3, <1>5, <2>2, <2>3, SameBurden
  <2>5. Burden(ProbeTick(probing)) <= Burden(probing) /\ LinkKnown(ProbeTick(probing))
    BY <2>3, <2>4, ProbeTickBurden
  <2>6. Burden(ProbeTick(probing)) \in Nat /\ Burden(probing) \in Nat /\ Burden(nudged) \in Nat
    BY <1>3, <2>3, ProbeTickGood, BurdenNat
  <2> QED
    BY <2>4, <2>5, <2>6
<1> HIDE DEF probing
<1>9. Burden(s) \in Nat /\ Burden(told) \in Nat /\ Burden(nudged) \in Nat
      /\ Burden(ReceiveSnapshot(s, id)) \in Nat
  BY <1>1, <1>3, ReceiveSnapshotGood, BurdenNat
<1>10. /\ Burden(ReceiveSnapshot(s, id)) <= Burden(nudged)
       /\ LinkKnown(ReceiveSnapshot(s, id))
  BY <1>2, <1>3, <1>6, <1>7, <1>8, <1>9
<1> QED
  BY <1>1, <1>3, <1>9, <1>10

-----------------------------------------------------------------------------
(* Room in the game's socket.                                               *)

(* What the bridge may send before the mod is heard again. *)
Allowance == WINDOW_CHUNKS + PROBE_BURST

(* The answers the bridge may still hear of what is sent: those on their    *)
(* way, and the one in the slot, or that a poll under way may put there.    *)
Unheard == Len(toBridge) + (IF batch > 0 \/ slot # NoAnswer THEN 1 ELSE 0)

(* What is in the socket, and what the bridge can add to it without being   *)
(* answered, leave room for an allowance for each of those answers.         *)
RoomInv ==
    /\ bridge.out = <<>>
    /\ LinkKnown(bridge)
    /\ Len(toBridge) <= MaxAnswers
    /\ FullSizeInBuffer + Burden(bridge) + Allowance * Unheard
         <= (2 + MaxAnswers) * Allowance

LEMMA AllowanceFacts ==
    /\ Allowance \in Nat /\ MaxAnswers \in Nat
    /\ \A n \in Nat : Allowance * n \in Nat /\ Allowance * (n + 1) = Allowance * n + Allowance
    /\ \A m, n \in Nat : m <= n => Allowance * m <= Allowance * n
    /\ (2 + MaxAnswers) * Allowance \in Nat
    /\ (2 + MaxAnswers) * Allowance = Allowance * (MaxAnswers + 1) + Allowance
<1>1. Allowance \in Nat /\ MaxAnswers \in Nat
  BY BridgeAssumption, BoundsAssumption DEF Allowance
<1>2. ASSUME NEW A \in Nat
      PROVE  /\ \A n \in Nat : A * n \in Nat /\ A * (n + 1) = A * n + A
             /\ \A m, n \in Nat : m <= n => A * m <= A * n
             /\ \A m \in Nat : (2 + m) * A \in Nat /\ (2 + m) * A = A * (m + 1) + A
  <2>1. \A n \in Nat : A * n \in Nat /\ A * (n + 1) = A * n + A
    OBVIOUS
  <2>2. ASSUME NEW m \in Nat, NEW n \in Nat, m <= n PROVE A * m <= A * n
    <3>1. n - m \in Nat /\ n = m + (n - m)
      BY <2>2
    <3>2. ASSUME NEW k \in Nat PROVE A * (m + k) = A * m + A * k /\ A * k >= 0 /\ A * k \in Nat /\ A * m \in Nat
      OBVIOUS
    <3>3. A * n = A * m + A * (n - m) /\ A * (n - m) >= 0 /\ A * (n - m) \in Nat /\ A * m \in Nat
      BY <3>1, <3>2
    <3> QED
      BY <3>3
  <2>3. ASSUME NEW m \in Nat PROVE (2 + m) * A \in Nat /\ (2 + m) * A = A * (m + 1) + A
    OBVIOUS
  <2> QED
    BY <2>1, <2>2, <2>3
<1> QED
  BY <1>1, <1>2

(* What is counted is a number. *)
Counted ==
    /\ FullSizeInBuffer \in Nat /\ Burden(bridge) \in Nat
    /\ Unheard \in Nat /\ Len(toBridge) \in Nat /\ Len(toMod) \in Nat
    /\ Len(toBridge) <= Unheard /\ Unheard <= Len(toBridge) + 1

LEMMA DCounted == DInv => Counted
<1> SUFFICES ASSUME DInv PROVE Counted
  OBVIOUS
<1>1. toMod \in Seq(BridgeDatagrams) /\ toBridge \in Seq(ModDatagrams)
      /\ batch \in 0..Len(toMod) /\ Good(bridge)
  BY DEF DInv
<1>2. Len(toMod) \in Nat /\ Len(toBridge) \in Nat /\ batch \in Nat
  BY <1>1
<1>3. FullSizeInBuffer \in Nat
  BY <1>2, CountNat DEF FullSizeInBuffer
<1>4. Burden(bridge) \in Nat
  BY <1>1, BurdenNat
<1>5. /\ Unheard \in Nat /\ Len(toBridge) <= Unheard /\ Unheard <= Len(toBridge) + 1
  BY <1>2 DEF Unheard
<1> QED
  BY <1>2, <1>3, <1>4, <1>5 DEF Counted

LEMMA RoomFacts ==
    ASSUME DInv
    PROVE  /\ FullSizeInBuffer \in Nat /\ Burden(bridge) \in Nat
           /\ Unheard \in Nat /\ Len(toBridge) \in Nat /\ Len(toMod) \in Nat
           /\ Len(toBridge) <= Unheard /\ Unheard <= Len(toBridge) + 1
BY DCounted DEF Counted

LEMMA RoomFactsNext ==
    ASSUME DInv'
    PROVE  /\ FullSizeInBuffer' \in Nat /\ Burden(bridge') \in Nat
           /\ Unheard' \in Nat /\ Len(toBridge') \in Nat /\ Len(toMod') \in Nat
           /\ Len(toBridge') <= Unheard' /\ Unheard' <= Len(toBridge') + 1
<1>1. Counted'
  BY DCounted, PTL
<1> QED
  BY <1>1 DEF Counted, Burden, Unsent, Usable

(* A step that sends no more than the bridge owed, and answers nothing. *)
LEMMA RoomKept ==
    ASSUME DInv, DInv', RoomInv,
           bridge'.out = <<>>, LinkKnown(bridge'), Len(toBridge') <= MaxAnswers,
           FullSizeInBuffer' + Burden(bridge') <= FullSizeInBuffer + Burden(bridge),
           Unheard' <= Unheard
    PROVE  RoomInv'
<1>1. /\ FullSizeInBuffer \in Nat /\ Burden(bridge) \in Nat /\ Unheard \in Nat
  BY RoomFacts
<1>2. /\ FullSizeInBuffer' \in Nat /\ Burden(bridge') \in Nat /\ Unheard' \in Nat
  BY RoomFactsNext
<1>3. /\ Allowance * Unheard \in Nat /\ Allowance * Unheard' \in Nat
      /\ Allowance * Unheard' <= Allowance * Unheard
      /\ (2 + MaxAnswers) * Allowance \in Nat
  <2> DEFINE m == Unheard'
             n == Unheard
  <2>1. m \in Nat /\ n \in Nat /\ m <= n
    BY <1>1, <1>2
  <2> HIDE DEF m, n
  <2>2. Allowance * n \in Nat /\ Allowance * m \in Nat
    BY <2>1, AllowanceFacts
  <2>3. Allowance * m <= Allowance * n
    BY <2>1, AllowanceFacts
  <2>4. (2 + MaxAnswers) * Allowance \in Nat
    BY AllowanceFacts
  <2> QED
    BY <2>2, <2>3, <2>4 DEF m, n
<1>4. FullSizeInBuffer + Burden(bridge) + Allowance * Unheard <= (2 + MaxAnswers) * Allowance
  BY DEF RoomInv
<1>5. FullSizeInBuffer' + Burden(bridge') + Allowance * Unheard' <= (2 + MaxAnswers) * Allowance
  BY <1>1, <1>2, <1>3, <1>4
<1> QED
  BY <1>5 DEF RoomInv, Allowance, LinkKnown

(* What is handed to the socket is no longer owed. *)
LEMMA FlushRoom ==
    ASSUME DInv, NEW s, Good(s), LinkKnown(s), Flush(s), batch' = batch
    PROVE  /\ bridge'.out = <<>> /\ LinkKnown(bridge')
           /\ FullSizeInBuffer' + Burden(bridge') = FullSizeInBuffer + Burden(s)
<1>1. toMod \in Seq(BridgeDatagrams) /\ batch \in 0..Len(toMod) /\ s.out \in Seq(BridgeDatagrams)
      /\ s \in SessionType
  BY Fields DEF DInv, Good
<1>2. /\ bridge'.out = <<>> /\ bridge'.phase = s.phase /\ bridge'.link = s.link
      /\ bridge'.window = s.window /\ bridge'.cursor = s.cursor
      /\ bridge'.probesLeft = s.probesLeft
  BY <1>1 DEF Flush, Flushed, SessionType
<1>3. FullSizeInBuffer' = FullSizeInBuffer + FullSizeAfter(s.out, 0)
  <2>1. FullSizeAfter(toMod \o s.out, batch) = FullSizeAfter(toMod, batch) + FullSizeAfter(s.out, 0)
    BY <1>1, CountJoined
  <2> QED
    BY <2>1 DEF FullSizeInBuffer, Flush
<1>4. Unsent(bridge') = Unsent(s) /\ Usable(bridge') = Usable(s) /\ LinkKnown(bridge')
  BY <1>2 DEF Unsent, Usable, LinkKnown
<1>5. FullSizeAfter(bridge'.out, 0) = 0
  <2>1. FullSizeAfter(<<>>, 0) = 0
    BY CountNone, Nothing
  <2> QED
    BY <1>2, <2>1
<1>6. /\ FullSizeAfter(s.out, 0) \in Nat /\ Unsent(s) \in Nat /\ Usable(s) \in Nat
      /\ FullSizeInBuffer \in Nat
  BY BurdenNat, RoomFacts
<1> QED
  BY <1>2, <1>3, <1>4, <1>5, <1>6 DEF Burden

(* The bridge acts without an answer. *)
LEMMA OwedRoom ==
    ASSUME DInv, DInv', RoomInv, NEW s, Good(s), LinkKnown(s), Flush(s),
           Burden(s) <= Burden(bridge),
           UNCHANGED <<batch, slot>>, toBridge' \in {toBridge, <<>>}
    PROVE  RoomInv'
<1>1. /\ bridge'.out = <<>> /\ LinkKnown(bridge')
      /\ FullSizeInBuffer' + Burden(bridge') = FullSizeInBuffer + Burden(s)
  BY FlushRoom
<1>2. /\ FullSizeInBuffer \in Nat /\ Burden(bridge) \in Nat /\ Len(toBridge) \in Nat
      /\ Burden(s) \in Nat
  BY RoomFacts, BurdenNat
<1>3. FullSizeInBuffer' + Burden(bridge') <= FullSizeInBuffer + Burden(bridge)
  BY <1>1, <1>2
<1>4. Len(toBridge') <= Len(toBridge) /\ Len(toBridge') \in Nat
  BY <1>2, Nothing
<1>5. Unheard' <= Unheard
  BY <1>2, <1>4 DEF Unheard
<1>6. Len(toBridge') <= MaxAnswers
  BY <1>2, <1>4, AllowanceFacts DEF RoomInv
<1> QED
  BY <1>1, <1>3, <1>5, <1>6, RoomKept

(* A session that has handed over everything can send an allowance. *)
LEMMA RestBurden ==
    ASSUME NEW s, Good(s), s.out = <<>>
    PROVE  Burden(s) <= Allowance
<1>1. FullSizeAfter(s.out, 0) = 0
  BY CountNone, Nothing
<1>2. Unsent(s) \in Nat /\ Usable(s) \in Nat /\ s.probesLeft \in Nat /\ Usable(s) <= s.probesLeft
  BY BurdenNat
<1>3. /\ Len(s.chunksUnheard) + Unsent(s) <= WINDOW_CHUNKS
      /\ s.probesUnheard + s.probesLeft <= PROBE_BURST
  BY DEF Good, BudgetKept
<1>4. s.probesUnheard \in Nat /\ s.chunksUnheard \in Seq(BridgeDatagrams)
  BY Fields DEF Good
<1>5. Len(s.chunksUnheard) \in Nat
  BY <1>4
<1> QED
  BY <1>1, <1>2, <1>3, <1>4, <1>5, BridgeAssumption DEF Burden, Allowance

LEMMA InitRoom == Init /\ DInv => RoomInv
<1> SUFFICES ASSUME Init, DInv PROVE RoomInv
  OBVIOUS
<1>1. /\ NewSession \in SessionType /\ NewSession.out = <<Ping(NoId)>>
      /\ NewSession.phase = "idle" /\ NewSession.link = "none"
  BY NewSessionGood DEF Good, NewSession
<1>2. bridge.out = <<>> /\ bridge.phase = "idle" /\ bridge.link = "none"
  BY <1>1 DEF Init, Flushed, SessionType
<1>3. FullSizeAfter(bridge.out, 0) = 0
  BY <1>2, CountNone, Nothing
<1>4. Burden(bridge) = 0 /\ LinkKnown(bridge)
  BY <1>2, <1>3 DEF Burden, Unsent, Usable, LinkKnown
<1>5. FullSizeInBuffer = 0
  <2>1. Append(<<>>, Ping(NoId)) = <<Ping(NoId)>>
    OBVIOUS
  <2>2. FullSizeAfter(Append(NewSession.out, Ping(NoId)), 0) = FullSizeAfter(NewSession.out, 0)
    BY <1>1, PingedSends DEF MaybeId
  <2>3. Ping(NoId) \in BridgeDatagrams /\ ~FullSize(Ping(NoId))
    BY PingType DEF FullSize, Ping, MaybeId
  <2>4. FullSizeAfter(Append(<<>>, Ping(NoId)), 0) = FullSizeAfter(<<>>, 0) + 0
    BY <2>3, Nothing, CountAppended
  <2>5. FullSizeAfter(<<>>, 0) = 0
    BY Nothing, CountNone
  <2> QED
    BY <1>1, <2>1, <2>4, <2>5 DEF Init, FullSizeInBuffer
<1>6. toBridge = <<>> /\ batch = 0 /\ slot = NoAnswer
  BY DEF Init, ModInit
<1>7. Unheard = 0 /\ Len(toBridge) <= MaxAnswers
  BY <1>6, Nothing, AllowanceFacts DEF Unheard
<1>8. 0 + 0 + Allowance * 0 <= (2 + MaxAnswers) * Allowance
  BY AllowanceFacts
<1> QED
  BY <1>2, <1>4, <1>5, <1>7, <1>8 DEF RoomInv

LEMMA BridgeRoom ==
    ASSUME DInv, DInv', RoomInv,
           \/ \E id \in Ids : PlannerSends(id) \/ PlannerAnnounces(id)
           \/ \E pingDue, slotDue \in BOOLEAN : BridgeTimeout(pingDue, slotDue)
           \/ ProbeTimePasses \/ LinkTurnsQuiet \/ NudgeTimePasses
           \/ BridgeRestarts
    PROVE  RoomInv'
<1>1. Good(bridge) /\ LinkKnown(bridge)
  BY DEF DInv, RoomInv
<1>2. CASE \E id \in Ids : PlannerSends(id)
  <2>1. PICK id \in Ids : PlannerSends(id)
    BY <1>2
  <2>2. /\ Good(ReceiveSnapshot(bridge, id)) /\ LinkKnown(ReceiveSnapshot(bridge, id))
        /\ Burden(ReceiveSnapshot(bridge, id)) <= Burden(bridge)
    BY <1>1, ReceiveSnapshotGood, ReceiveSnapshotBurden
  <2>3. /\ Flush(ReceiveSnapshot(bridge, id))
        /\ UNCHANGED <<batch, slot, toBridge>>
    BY <2>1 DEF PlannerSends, BridgeOnly, modVars
  <2> QED
    BY <2>2, <2>3, OwedRoom
<1>3. CASE \E id \in Ids : PlannerAnnounces(id)
  <2>1. PICK id \in Ids : PlannerAnnounces(id)
    BY <1>3
  <2>2. /\ Good(Announce(bridge, id)) /\ LinkKnown(Announce(bridge, id))
        /\ Burden(Announce(bridge, id)) <= Burden(bridge)
    BY <1>1, AnnounceGood, AnnounceBurden DEF MaybeId
  <2>3. /\ Flush(Announce(bridge, id))
        /\ UNCHANGED <<batch, slot, toBridge>>
    BY <2>1 DEF PlannerAnnounces, BridgeOnly, modVars
  <2> QED
    BY <2>2, <2>3, OwedRoom
<1>4. CASE \E pingDue, slotDue \in BOOLEAN : BridgeTimeout(pingDue, slotDue)
  <2>1. PICK pingDue \in BOOLEAN, slotDue \in BOOLEAN : BridgeTimeout(pingDue, slotDue)
    BY <1>4
  <2> DEFINE s == HandleTimeout(bridge, pingDue, slotDue)
  <2>2. Good(s) /\ LinkKnown(s) /\ Burden(s) <= Burden(bridge)
    BY <1>1, HandleTimeoutGood, HandleTimeoutBurden
  <2>3. Flush(s) /\ UNCHANGED <<batch, slot, toBridge>>
    BY <2>1 DEF BridgeTimeout, BridgeOnly, modVars
  <2> HIDE DEF s
  <2> QED
    BY <2>2, <2>3, OwedRoom
<1>5. CASE ProbeTimePasses \/ LinkTurnsQuiet \/ NudgeTimePasses
  <2>1. PICK s \in {ProbeAges(bridge), TurnsQuiet(bridge), NudgeComesDue(bridge)} :
          TimeOnly(s) /\ (s = TurnsQuiet(bridge) => CanTurnQuiet(bridge))
    <3>1. CASE LinkTurnsQuiet
      BY <3>1 DEF LinkTurnsQuiet
    <3>2. CASE ProbeTimePasses
      <4>1. CASE ProbeAges(bridge) = TurnsQuiet(bridge)
        <5>1. bridge \in SessionType
          BY <1>1 DEF Good
        <5>2. ProbeAges(bridge).link = bridge.link /\ TurnsQuiet(bridge).link = "quiet"
          BY <5>1 DEF ProbeAges, TurnsQuiet, SessionType
        <5>3. ProbeAges(bridge).probeAge # bridge.probeAge /\ TurnsQuiet(bridge).probeAge = bridge.probeAge
          BY <3>2, <5>1 DEF ProbeAges, TurnsQuiet, SessionType, ProbeTimePasses, CanAge
        <5> QED
          BY <4>1, <5>3
      <4>2. CASE ProbeAges(bridge) # TurnsQuiet(bridge)
        BY <3>2, <4>2 DEF ProbeTimePasses
      <4> QED
        BY <4>1, <4>2
    <3>3. CASE NudgeTimePasses
      <4>1. bridge \in SessionType
        BY <1>1 DEF Good
      <4>2. NudgeComesDue(bridge).nudgeDue = TRUE /\ TurnsQuiet(bridge).nudgeDue = bridge.nudgeDue
            /\ bridge.nudgeDue = FALSE
        BY <3>3, <4>1 DEF NudgeComesDue, TurnsQuiet, SessionType, NudgeTimePasses
      <4> QED
        BY <3>3, <4>2 DEF NudgeTimePasses
    <3> QED
      BY <1>5, <3>1, <3>2, <3>3
  <2>2. s = TurnsQuiet(bridge) => bridge.link # "none"
    BY <2>1 DEF CanTurnQuiet
  <2>3. Good(s) /\ LinkKnown(s) /\ Burden(s) <= Burden(bridge)
    BY <1>1, <2>2, TimeGood, TimeBurden
  <2>4. Flush(s) /\ UNCHANGED <<batch, slot, toBridge>>
    BY <2>1 DEF TimeOnly, BridgeOnly, modVars
  <2> QED
    BY <2>3, <2>4, OwedRoom
<1>6. CASE BridgeRestarts
  <2>1. Good(NewSession)
    BY NewSessionGood
  <2>2. NewSession.out = <<Ping(NoId)>> /\ NewSession.phase = "idle" /\ NewSession.link = "none"
    BY DEF NewSession
  <2>3. FullSizeAfter(NewSession.out, 0) = 0
    <3>1. Append(<<>>, Ping(NoId)) = <<Ping(NoId)>>
      OBVIOUS
    <3>2. Ping(NoId) \in BridgeDatagrams /\ ~FullSize(Ping(NoId))
      BY PingType DEF FullSize, Ping, MaybeId
    <3>3. FullSizeAfter(Append(<<>>, Ping(NoId)), 0) = FullSizeAfter(<<>>, 0) + 0
      BY <3>2, Nothing, CountAppended
    <3>4. FullSizeAfter(<<>>, 0) = 0
      BY Nothing, CountNone
    <3> QED
      BY <2>2, <3>1, <3>3, <3>4
  <2>4. Burden(NewSession) = 0 /\ LinkKnown(NewSession)
    BY <2>2, <2>3 DEF Burden, Unsent, Usable, LinkKnown
  <2>5. Burden(NewSession) <= Burden(bridge)
    BY <2>4, RoomFacts
  <2>6. Flush(NewSession) /\ UNCHANGED <<batch, slot>> /\ toBridge' = <<>>
    BY <1>6 DEF BridgeRestarts, BridgeOnly, modVars
  <2> QED
    BY <2>1, <2>4, <2>5, <2>6, OwedRoom
<1> QED
  BY <1>2, <1>3, <1>4, <1>5, <1>6

(* An answer heard pays for what the bridge may then send. *)
LEMMA HearingRoom ==
    ASSUME DInv, DInv', RoomInv, BridgeHears
    PROVE  RoomInv'
<1> DEFINE s == HandleDatagram(bridge, Head(toBridge))
<1>1. /\ toBridge \in Seq(ModDatagrams) /\ toBridge # <<>>
      /\ Good(bridge) /\ bridge.out = <<>>
  BY DEF DInv, RoomInv, BridgeHears
<1>2. Head(toBridge) \in ModDatagrams /\ Len(Tail(toBridge)) = Len(toBridge) - 1
  BY <1>1
<1>3. Good(s) /\ LinkKnown(s) /\ Burden(s) <= Allowance
  BY <1>1, <1>2, HandleDatagramGood, HandleDatagramBurden DEF Allowance
<1>4. Flush(s) /\ toBridge' = Tail(toBridge) /\ UNCHANGED <<batch, slot>>
  BY DEF BridgeHears, BridgeOnly, modVars
<1> HIDE DEF s
<1>5. /\ bridge'.out = <<>> /\ LinkKnown(bridge')
      /\ FullSizeInBuffer' + Burden(bridge') = FullSizeInBuffer + Burden(s)
  BY <1>3, <1>4, FlushRoom
<1>6. /\ FullSizeInBuffer \in Nat /\ Burden(bridge) \in Nat /\ Unheard \in Nat
      /\ Len(toBridge) \in Nat /\ Burden(s) \in Nat
  BY <1>3, RoomFacts, BurdenNat
<1>7. Unheard' \in Nat
  BY RoomFactsNext
<1>8. Unheard = Unheard' + 1 /\ Len(toBridge') <= Len(toBridge)
      /\ Len(toBridge') \in Int
  <2> DEFINE n == IF batch > 0 \/ slot # NoAnswer THEN 1 ELSE 0
  <2>1. Len(toBridge') = Len(toBridge) - 1
    BY <1>2, <1>4
  <2>2. Unheard = Len(toBridge) + n /\ Unheard' = Len(toBridge') + n /\ n \in Nat
    BY <1>4 DEF Unheard
  <2> HIDE DEF n
  <2> QED
    BY <1>6, <2>1, <2>2
<1>9. /\ Allowance \in Nat /\ Allowance * Unheard' \in Nat
      /\ Allowance * Unheard = Allowance * Unheard' + Allowance
      /\ (2 + MaxAnswers) * Allowance \in Nat /\ MaxAnswers \in Nat
  <2> DEFINE m == Unheard'
  <2>1. m \in Nat /\ Unheard = m + 1
    BY <1>7, <1>8
  <2> HIDE DEF m
  <2>2. Allowance * m \in Nat /\ Allowance * (m + 1) = Allowance * m + Allowance
    BY <2>1, AllowanceFacts
  <2>3. Allowance * Unheard = Allowance * m + Allowance
    BY <2>1, <2>2
  <2>4. Allowance \in Nat /\ (2 + MaxAnswers) * Allowance \in Nat /\ MaxAnswers \in Nat
    BY AllowanceFacts
  <2> QED
    BY <2>2, <2>3, <2>4 DEF m
<1>10. /\ FullSizeInBuffer + Burden(bridge) + Allowance * Unheard <= (2 + MaxAnswers) * Allowance
       /\ Len(toBridge) <= MaxAnswers
  BY DEF RoomInv
<1>11. FullSizeInBuffer' + Burden(bridge') + Allowance * Unheard' <= (2 + MaxAnswers) * Allowance
  BY <1>3, <1>5, <1>6, <1>9, <1>10
<1>12. Len(toBridge') <= MaxAnswers
  BY <1>6, <1>8, <1>9, <1>10
<1> QED
  BY <1>5, <1>11, <1>12 DEF RoomInv, Allowance, LinkKnown

(* A poll takes everything out of the socket, for one more answer. *)
LEMMA PollRoom ==
    ASSUME DInv, DInv', RoomInv, Poll
    PROVE  RoomInv'
<1>1. UNCHANGED <<bridge, toMod, toBridge>> /\ batch' = Len(toMod)
  BY DEF Poll, ModOnly
<1>2. /\ Good(bridge) /\ bridge.out = <<>> /\ LinkKnown(bridge)
      /\ Len(toBridge) <= MaxAnswers
  BY DEF DInv, RoomInv
<1>3. Len(toMod) \in Nat /\ Len(toBridge) \in Nat
  BY RoomFacts
<1>4. FullSizeInBuffer' = 0
  BY <1>1, <1>3, CountNone DEF FullSizeInBuffer
<1>5. Burden(bridge) <= Allowance /\ Burden(bridge) \in Nat
  BY <1>2, RestBurden, BurdenNat
<1>6. Unheard' \in Nat /\ Unheard' <= Len(toBridge') + 1
  BY RoomFactsNext
<1>7. Unheard' <= MaxAnswers + 1 /\ MaxAnswers + 1 \in Nat
  BY <1>1, <1>2, <1>3, <1>6, AllowanceFacts
<1>8. /\ Allowance * Unheard' <= Allowance * (MaxAnswers + 1)
      /\ Allowance * Unheard' \in Nat /\ Allowance * (MaxAnswers + 1) \in Nat
      /\ (2 + MaxAnswers) * Allowance = Allowance * (MaxAnswers + 1) + Allowance
      /\ Allowance \in Nat
  BY <1>6, <1>7, AllowanceFacts
<1>9. FullSizeInBuffer' + Burden(bridge) + Allowance * Unheard' <= (2 + MaxAnswers) * Allowance
  BY <1>4, <1>5, <1>8
<1> QED
  BY <1>1, <1>2, <1>9 DEF RoomInv, Allowance

(* The other steps of the mod, its game and the network send nothing. *)
LEMMA ModRoom ==
    ASSUME DInv, DInv', RoomInv, ModHears \/ ModFlushes \/ GameSaves \/ GameLoads
    PROVE  RoomInv'
<1>1. /\ bridge' = bridge /\ bridge.out = <<>> /\ LinkKnown(bridge)
      /\ Len(toBridge) <= MaxAnswers
  BY DEF RoomInv, ModHears, ModFlushes, GameSaves, GameLoads, ModOnly
<1>2. /\ toMod \in Seq(BridgeDatagrams) /\ batch \in 0..Len(toMod)
      /\ toBridge \in Seq(ModDatagrams)
      /\ Len(toMod) \in Nat /\ Len(toBridge) \in Nat
      /\ FullSizeInBuffer \in Nat /\ Burden(bridge) \in Nat
  BY RoomFacts DEF DInv
<1>3. ASSUME FullSizeInBuffer' <= FullSizeInBuffer, Unheard' <= Unheard,
             Len(toBridge') <= MaxAnswers
      PROVE  RoomInv'
  <2>1. FullSizeInBuffer' \in Nat
    BY RoomFactsNext
  <2>2. FullSizeInBuffer' + Burden(bridge') <= FullSizeInBuffer + Burden(bridge)
    BY <1>1, <1>2, <1>3, <2>1
  <2> QED
    BY <1>1, <1>3, <2>2, RoomKept
<1>4. CASE ModHears
  <2>1. batch > 0 /\ batch' = batch - 1 /\ toMod' = Tail(toMod) /\ toBridge' = toBridge
    BY <1>4 DEF ModHears, Draining, ModOnly
  <2>2. batch \in 1..Len(toMod)
    BY <1>2, <2>1
  <2>3. FullSizeInBuffer' = FullSizeInBuffer
    BY <1>2, <2>1, <2>2, CountTail DEF FullSizeInBuffer
  <2>4. Unheard' <= Unheard
    BY <1>2, <2>1 DEF Unheard
  <2> QED
    BY <1>1, <1>2, <1>3, <2>1, <2>3, <2>4
<1>5. CASE ModFlushes
  <2>1. /\ ~(batch > 0) /\ Len(toBridge) < MaxAnswers /\ slot # NoAnswer /\ slot' = NoAnswer
        /\ toBridge' = Append(toBridge, slot) /\ UNCHANGED <<toMod, batch>>
    BY <1>5 DEF ModFlushes, TakeAnswer, Draining
  <2>2. Len(toBridge') = Len(toBridge) + 1
    BY <1>2, <2>1
  <2>3. Unheard' <= Unheard
    BY <1>2, <2>1, <2>2 DEF Unheard
  <2>4. Len(toBridge') <= MaxAnswers
    BY <1>2, <2>1, <2>2, AllowanceFacts
  <2>5. FullSizeInBuffer' = FullSizeInBuffer
    BY <2>1 DEF FullSizeInBuffer
  <2> QED
    BY <1>2, <1>3, <2>3, <2>4, <2>5
<1>6. CASE GameSaves
  <2>1. UNCHANGED <<toMod, batch, toBridge, slot>>
    BY <1>6 DEF GameSaves, Save, ModOnly
  <2>2. FullSizeInBuffer' = FullSizeInBuffer /\ Unheard' = Unheard
    BY <2>1 DEF FullSizeInBuffer, Unheard
  <2>3. Unheard \in Nat
    BY RoomFacts
  <2> QED
    BY <1>1, <1>2, <1>3, <2>1, <2>2, <2>3
<1>7. CASE GameLoads
  <2>1. /\ ~(batch > 0) /\ batch' = batch /\ toMod' = <<>>
        /\ slot' = NoAnswer /\ toBridge' = toBridge
    BY <1>7 DEF GameLoads, Load, Draining, ModOnly
  <2>2. batch' = Len(toMod')
    BY <1>2, <2>1, Nothing
  <2>3. FullSizeInBuffer' = 0
    <3>1. FullSizeAfter(<<>>, Len(<<>>)) = 0
      BY Nothing, CountNone
    <3> QED
      BY <2>1, <2>2, <3>1 DEF FullSizeInBuffer
  <2>4. Unheard' <= Unheard
    BY <1>2, <2>1 DEF Unheard
  <2> QED
    BY <1>1, <1>2, <1>3, <2>1, <2>3, <2>4
<1> QED
  BY <1>4, <1>5, <1>6, <1>7

LEMMA LossRoom ==
    ASSUME DInv, DInv', RoomInv, LoseToMod \/ LoseToBridge
    PROVE  RoomInv'
<1>1. /\ UNCHANGED <<bridge, slot, batch>> /\ ~(batch > 0)
      /\ bridge.out = <<>> /\ LinkKnown(bridge) /\ Len(toBridge) <= MaxAnswers
  BY DEF RoomInv, LoseToMod, LoseToBridge, Draining, modVars
<1>2. /\ toMod \in Seq(BridgeDatagrams) /\ batch \in 0..Len(toMod)
      /\ toBridge \in Seq(ModDatagrams)
      /\ Len(toMod) \in Nat /\ Len(toBridge) \in Nat
      /\ FullSizeInBuffer \in Nat /\ Burden(bridge) \in Nat /\ Unheard \in Nat
  BY RoomFacts DEF DInv
<1>3. /\ FullSizeInBuffer' \in Nat /\ Len(toBridge') \in Nat
  BY RoomFactsNext
<1>4. CASE LoseToMod
  <2>1. PICK k \in DOMAIN toMod : toMod' = RemoveAt(toMod, k)
    BY <1>4 DEF LoseToMod
  <2>2. toBridge' = toBridge
    BY <1>4 DEF LoseToMod
  <2>3. k \in 1..Len(toMod) /\ batch = 0
    BY <1>1, <1>2
  <2>4. FullSizeInBuffer' <= FullSizeInBuffer
    BY <1>1, <1>2, <2>1, <2>3, CountRemoved DEF FullSizeInBuffer
  <2>5. FullSizeInBuffer' + Burden(bridge') <= FullSizeInBuffer + Burden(bridge)
    BY <1>1, <1>2, <1>3, <2>4
  <2>6. Unheard' = Unheard
    BY <1>1, <2>2 DEF Unheard
  <2> QED
    BY <1>1, <1>2, <2>2, <2>5, <2>6, RoomKept
<1>5. CASE LoseToBridge
  <2>1. PICK k \in DOMAIN toBridge : toBridge' = RemoveAt(toBridge, k)
    BY <1>5 DEF LoseToBridge
  <2>2. toMod' = toMod
    BY <1>5 DEF LoseToBridge
  <2>3. Len(toBridge') <= Len(toBridge)
    <3>1. k \in 1..Len(toBridge)
      BY <1>2
    <3>2. Len(RemoveAt(toBridge, k)) = Len(toBridge) - 1
      <4> DEFINE a == SubSeq(toBridge, 1, k - 1)
                 b == SubSeq(toBridge, k + 1, Len(toBridge))
      <4>1. k \in Nat /\ k >= 1 /\ k <= Len(toBridge)
            /\ \A i \in 1..Len(toBridge) : toBridge[i] \in ModDatagrams
        BY <1>2, <3>1
      <4>2. a \in Seq(ModDatagrams) /\ Len(a) = k - 1
        BY <1>2, <4>1, SubSeqProperties
      <4>3. b \in Seq(ModDatagrams) /\ Len(b) = Len(toBridge) - k
        <5>1. k + 1 \in Int /\ Len(toBridge) \in Int
              /\ \A i \in (k + 1)..Len(toBridge) : toBridge[i] \in ModDatagrams
          BY <1>2, <4>1
        <5>2. /\ b \in Seq(ModDatagrams)
              /\ Len(b) = IF k + 1 <= Len(toBridge) THEN Len(toBridge) - (k + 1) + 1 ELSE 0
          BY <5>1, SubSeqProperties
        <5> HIDE DEF b
        <5> QED
          BY <1>2, <4>1, <5>2
      <4>4. RemoveAt(toBridge, k) = a \o b
        BY DEF RemoveAt
      <4> HIDE DEF a, b
      <4>5. Len(a \o b) = Len(a) + Len(b)
        BY <4>2, <4>3, Concatenation
      <4> QED
        BY <1>2, <4>1, <4>2, <4>3, <4>4, <4>5
    <3> QED
      BY <1>2, <2>1, <3>2
  <2>4. FullSizeInBuffer' = FullSizeInBuffer
    BY <1>1, <2>2 DEF FullSizeInBuffer
  <2>5. Unheard' <= Unheard
    BY <1>1, <1>2, <1>3, <2>3 DEF Unheard
  <2>6. Len(toBridge') <= MaxAnswers
    BY <1>1, <1>2, <1>3, <2>3, AllowanceFacts
  <2>7. FullSizeInBuffer' + Burden(bridge') <= FullSizeInBuffer + Burden(bridge)
    BY <1>1, <1>2, <2>4
  <2> QED
    BY <1>1, <2>5, <2>6, <2>7, RoomKept
<1> QED
  BY <1>4, <1>5

LEMMA StepRoom ==
    ASSUME DInv, DInv', RoomInv, [Next]_vars
    PROVE  RoomInv'
<1>1. CASE UNCHANGED vars
  <2>1. UNCHANGED <<bridge, toMod, toBridge, batch, slot>>
    BY <1>1 DEF vars, modVars
  <2> QED
    BY <2>1 DEF RoomInv, FullSizeInBuffer, Unheard, LinkKnown, Burden
<1> QED
  BY <1>1, BridgeRoom, HearingRoom, PollRoom, ModRoom, LossRoom DEF Next

LEMMA RoomEnough ==
    ASSUME DInv, RoomInv
    PROVE  BufferRoom
<1>1. /\ FullSizeInBuffer \in Nat /\ Burden(bridge) \in Nat /\ Unheard \in Nat
  BY RoomFacts
<1>2. Allowance * Unheard \in Nat /\ (2 + MaxAnswers) * Allowance \in Int
  BY <1>1, AllowanceFacts
<1>3. FullSizeInBuffer + Burden(bridge) + Allowance * Unheard <= (2 + MaxAnswers) * Allowance
  BY DEF RoomInv
<1>4. FullSizeInBuffer <= (2 + MaxAnswers) * Allowance
  BY <1>1, <1>2, <1>3
<1> QED
  BY <1>4 DEF BufferRoom, Allowance

(* The socket, the bridge's session and the answers on their way account    *)
(* for each other: what is sent next is owed or paid for by an answer.      *)
THEOREM DeliveryRoom ==
    ASSUME Patient
    PROVE  Spec => []RoomInv
<1>1. Init => DInv /\ RoomInv
  BY InitImplements, InitRoom
<1>2. DInv /\ RoomInv /\ [Next]_vars => DInv' /\ RoomInv'
  BY StepImplements, StepRoom
<1> QED
  BY <1>1, <1>2, PTL DEF Spec

(* However long the game is paused, however often the planner changes its   *)
(* mind or the bridge is restarted, what the game's socket has to hold is   *)
(* bounded: send_slot and probe_tick stop until the mod answers.            *)
THEOREM DeliveryBufferRoom ==
    ASSUME Patient
    PROVE  Spec => []BufferRoom
<1>1. DInv /\ RoomInv => BufferRoom
  BY RoomEnough
<1> QED
  BY <1>1, DeliveryInvariant, DeliveryRoom, PTL
=============================================================================
