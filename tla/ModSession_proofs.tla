-------------------------- MODULE ModSession_proofs --------------------------
(* What the mod keeps to whatever arrives, for every set of snapshots,      *)
(* verdicts and datagrams: the reassembly and the answer slot are sound,    *)
(* and the stored snapshot changes only as a whole.                         *)
EXTENDS ModSession, ModReceiver_proofs

(* The inductive invariant.  The answers are true because an event that     *)
(* makes one false replaces it, and a refusal is true because a reassembly  *)
(* is never of the stored snapshot.                                         *)
MInv ==
    /\ stored \in MaybeId
    /\ saved \in MaybeId
    /\ assembling \in [id: MaybeId, held: SUBSET Nat]
    /\ AssemblySound
    /\ SlotTruth

-----------------------------------------------------------------------------

LEMMA FirstIndex ==
    ASSUME NEW id \in Ids
    PROVE  0 \in Indices(id) /\ Indices(id) \subseteq Nat
BY CountAssumption DEF Indices

(* What a datagram that may arrive names. *)
LEMMA Named ==
    ASSUME NEW d \in Arrivals
    PROVE  /\ d.type \in {"W", "C", "E"} => d.id \in Ids /\ d.id # NoId
           /\ d.type = "C" => d.index \in Indices(d.id)
<1>1. d \in BridgeDatagrams /\ (d.type = "C" => d.index < Count[d.id])
  BY ArrivalsAssumption
<1>2. d.type \in {"W", "C", "E"} => d.id \in Ids
  BY <1>1 DEF BridgeDatagrams
<1>3. d.type = "C" => d.index \in Nat
  BY <1>1 DEF BridgeDatagrams
<1>4. d.type = "C" => d.index \in Indices(d.id)
  BY <1>1, <1>2, <1>3, CountAssumption DEF Indices
<1> QED
  BY <1>2, <1>4, NoIdAssumption

(* A hello tells the truth when it is put in the slot, and what is in the   *)
(* slot already still is true.                                              *)
LEMMA HelloTrue ==
    ASSUME MInv, SetHello, UNCHANGED <<stored, assembling, saved>>
    PROVE  MInv'
<1>1. CASE slot = NoAnswer
  <2>1. slot' = Hello(stored, assembling.id)
    BY <1>1 DEF SetHello
  <2>2. SlotTruth'
    BY <2>1 DEF SlotTruth, Hello
  <2> QED
    BY <2>2 DEF MInv, AssemblySound
<1>2. CASE slot # NoAnswer
  BY <1>2 DEF SetHello, MInv, AssemblySound, SlotTruth
<1> QED
  BY <1>1, <1>2

LEMMA ProbeKeeps ==
    ASSUME MInv, NEW d \in Arrivals, d.type = "W", OnProbe(d), UNCHANGED saved
    PROVE  MInv'
<1>1. d.id \in Ids /\ d.id # NoId
  BY Named
<1>2. CASE d.id = stored
  <2>1. assembling' = [id |-> NoId, held |-> {}] /\ stored' = stored
    BY <1>2 DEF OnProbe, NoAssembly
  <2>2. slot' = Ack(stored)
    BY <1>2 DEF OnProbe
  <2>3. AssemblySound'
    BY <2>1 DEF AssemblySound
  <2>4. SlotTruth'
    BY <2>1, <2>2 DEF SlotTruth, Ack
  <2>5. assembling' \in [id: MaybeId, held: SUBSET Nat]
    BY <2>1 DEF MaybeId
  <2> QED
    BY <2>1, <2>3, <2>4, <2>5 DEF MInv
<1>3. CASE d.id # stored
  <2>1. /\ slot' = Ready(d.id) /\ stored' = stored
        /\ assembling' = IF assembling.id = d.id
                         THEN assembling ELSE [id |-> d.id, held |-> {}]
    BY <1>3 DEF OnProbe
  <2>2. assembling' \in [id: MaybeId, held: SUBSET Nat] /\ assembling'.id = d.id
    BY <1>1, <2>1 DEF MInv, MaybeId
  <2>3. SlotTruth'
    BY <2>1, <2>2 DEF SlotTruth, Ready
  <2>4. AssemblySound'
    <3>1. CASE assembling.id = d.id
      BY <2>1, <3>1 DEF MInv, AssemblySound
    <3>2. CASE assembling.id # d.id
      <4>1. assembling' = [id |-> d.id, held |-> {}]
        BY <2>1, <3>2
      <4>2. {} # Indices(d.id)
        BY <1>1, FirstIndex
      <4> QED
        BY <1>1, <1>3, <2>1, <4>1, <4>2 DEF AssemblySound
    <3> QED
      BY <3>1, <3>2
  <2> QED
    BY <2>1, <2>2, <2>3, <2>4 DEF MInv
<1> QED
  BY <1>2, <1>3

(* Finishing a reassembly other than of the stored snapshot. *)
LEMMA FinishKeeps ==
    ASSUME MInv, NEW id \in Ids, id # stored, Finish(id), UNCHANGED saved
    PROVE  MInv'
<1>1. assembling' = [id |-> NoId, held |-> {}]
  BY DEF Finish, NoAssembly
<1>2. AssemblySound' /\ assembling' \in [id: MaybeId, held: SUBSET Nat]
  BY <1>1 DEF AssemblySound, MaybeId
<1>3. CASE stored' = id /\ slot' = Ack(id)
  BY <1>2, <1>3 DEF MInv, MaybeId, SlotTruth, Ack
<1>4. CASE stored' = stored /\ slot' = Refusal(id)
  <2>1. assembling' = NoAssembly
    BY DEF Finish
  <2>2. SlotTruth'
    BY <1>4, <2>1 DEF SlotTruth, Refusal, NoAssembly
  <2> QED
    BY <1>2, <1>4, <2>2 DEF MInv
<1> QED
  BY <1>3, <1>4 DEF Finish

LEMMA ChunkKeeps ==
    ASSUME MInv, NEW d \in Arrivals, d.type = "C", OnChunk(d), UNCHANGED saved
    PROVE  MInv'
<1>1. d.id \in Ids /\ d.id # NoId /\ d.index \in Indices(d.id)
  BY Named
<1>2. CASE assembling.id # d.id \/ d.index \in assembling.held
  BY <1>2 DEF OnChunk, MInv, AssemblySound, SlotTruth
<1>3. CASE /\ assembling.id = d.id /\ d.index \notin assembling.held
           /\ assembling.held \cup {d.index} = Indices(d.id)
  <2>1. Finish(d.id)
    BY <1>3 DEF OnChunk
  <2>2. d.id # stored
    BY <1>1, <1>3 DEF MInv, AssemblySound
  <2> QED
    BY <1>1, <2>1, <2>2, FinishKeeps
<1>4. CASE /\ assembling.id = d.id /\ d.index \notin assembling.held
           /\ assembling.held \cup {d.index} # Indices(d.id)
  <2>1. /\ assembling' = [assembling EXCEPT !.held = @ \cup {d.index}]
        /\ stored' = stored /\ slot' = slot
    BY <1>4 DEF OnChunk
  <2>2. assembling \in [id: MaybeId, held: SUBSET Nat]
    BY DEF MInv
  <2>3. /\ assembling'.id = assembling.id
        /\ assembling'.held = assembling.held \cup {d.index}
    BY <2>1, <2>2
  <2>4. assembling' \in [id: MaybeId, held: SUBSET Nat]
    BY <1>1, <2>1, <2>2, FirstIndex
  <2>5. AssemblySound'
    BY <1>1, <1>4, <2>1, <2>3 DEF MInv, AssemblySound
  <2>6. slot.type # "N"
    BY <1>1, <1>4 DEF MInv, SlotTruth, NoAssembly
  <2>7. SlotTruth'
    BY <2>1, <2>3, <2>6 DEF MInv, SlotTruth
  <2> QED
    BY <2>1, <2>4, <2>5, <2>7 DEF MInv
<1> QED
  BY <1>2, <1>3, <1>4

LEMMA EndOfWindowKeeps ==
    ASSUME MInv, NEW d \in Arrivals, d.type = "E", OnEndOfWindow(d), UNCHANGED saved
    PROVE  MInv'
<1>1. stored' = stored /\ assembling' = assembling
  BY DEF OnEndOfWindow
<1>2. AssemblySound'
  BY <1>1 DEF MInv, AssemblySound
<1>3. SlotTruth'
  <2>1. CASE d.id = stored
    <3>1. slot' = Ack(stored)
      BY <2>1 DEF OnEndOfWindow
    <3> QED
      BY <1>1, <3>1 DEF SlotTruth, Ack
  <2>2. CASE d.id # stored /\ (assembling.id # d.id \/ d.upto > Count[d.id])
    <3>1. slot' = slot
      BY <2>2 DEF OnEndOfWindow
    <3> QED
      BY <1>1, <3>1 DEF MInv, SlotTruth
  <2>3. CASE d.id # stored /\ ~(assembling.id # d.id \/ d.upto > Count[d.id])
    <3>1. slot' = Missing(d.id, d.round, MissingRanges(assembling.held, d.upto))
      BY <2>3 DEF OnEndOfWindow
    <3>2. slot'.type = "M" /\ slot'.id = assembling'.id
      BY <1>1, <2>3, <3>1 DEF Missing
    <3> QED
      BY <3>2 DEF SlotTruth
  <2> QED
    BY <2>1, <2>2, <2>3
<1> QED
  BY <1>1, <1>2, <1>3 DEF MInv

LEMMA DatagramKeeps ==
    ASSUME MInv, NEW d \in Arrivals, OnDatagram(d)
    PROVE  MInv'
<1>1. CASE d.type = "P" /\ OnPing(d)
  BY <1>1, HelloTrue DEF OnDatagram, OnPing
<1>2. CASE d.type = "W" /\ OnProbe(d)
  BY <1>2, ProbeKeeps DEF OnDatagram
<1>3. CASE d.type = "C" /\ OnChunk(d)
  BY <1>3, ChunkKeeps DEF OnDatagram
<1>4. CASE d.type = "E" /\ OnEndOfWindow(d)
  BY <1>4, EndOfWindowKeeps DEF OnDatagram
<1>5. CASE d.type = "V" /\ OnOtherVersion
  BY <1>5, HelloTrue DEF OnDatagram, OnOtherVersion
<1> QED
  BY <1>1, <1>2, <1>3, <1>4, <1>5 DEF OnDatagram

-----------------------------------------------------------------------------
(* The invariant holds for ever. *)
THEOREM ModInvariant == ModSpec => []MInv
<1>1. ModInit => MInv
  <2> SUFFICES ASSUME ModInit
               PROVE  MInv
    OBVIOUS
  <2>1. SlotTruth
    BY DEF ModInit, SlotTruth, NoAnswer
  <2>2. AssemblySound
    BY DEF ModInit, AssemblySound, NoAssembly
  <2> QED
    BY <2>1, <2>2 DEF ModInit, MInv, MaybeId, NoAssembly
<1>2. MInv /\ [ModNext]_modVars => MInv'
  <2> SUFFICES ASSUME MInv, [ModNext]_modVars
               PROVE  MInv'
    OBVIOUS
  <2>1. ASSUME NEW d \in Arrivals, HearDatagram(d)
        PROVE  MInv'
    BY <2>1, DatagramKeeps DEF HearDatagram
  <2>2. CASE TakeAnswer
    <3>1. SlotTruth'
      BY <2>2 DEF TakeAnswer, SlotTruth, NoAnswer
    <3> QED
      BY <2>2, <3>1 DEF TakeAnswer, MInv, AssemblySound
  <2>3. CASE Save
    BY <2>3 DEF Save, MInv, AssemblySound, SlotTruth
  <2>4. CASE Load
    <3>1. SlotTruth'
      BY <2>4 DEF Load, SlotTruth, NoAnswer
    <3>2. AssemblySound' /\ assembling' \in [id: MaybeId, held: SUBSET Nat]
      BY <2>4 DEF Load, AssemblySound, NoAssembly, MaybeId
    <3> QED
      BY <2>4, <3>1, <3>2 DEF Load, MInv
  <2>5. CASE UNCHANGED modVars
    BY <2>5 DEF modVars, MInv, AssemblySound, SlotTruth
  <2> QED
    BY <2>1, <2>2, <2>3, <2>4, <2>5 DEF ModNext
<1> QED
  BY <1>1, <1>2, PTL DEF ModSpec

(* A reassembly is never of the stored snapshot, never complete, and holds  *)
(* only chunks its snapshot has.                                            *)
THEOREM ModAssemblySound == ModSpec => []AssemblySound
<1>1. MInv => AssemblySound
  BY DEF MInv
<1> QED
  BY <1>1, ModInvariant, PTL

(* What the flush sends is true when it sends it. *)
THEOREM ModSlotTruth == ModSpec => []SlotTruth
<1>1. MInv => SlotTruth
  BY DEF MInv
<1> QED
  BY <1>1, ModInvariant, PTL

(* The stored snapshot is only ever replaced by a complete one the mod      *)
(* accepted, with its ack in the slot, or by a load.                        *)
THEOREM ModStoredChangesWhole == ModSpec => StoredChangesWhole
<1> DEFINE Whole == \/ Load
                    \/ /\ stored' = assembling.id
                       /\ assembling' = NoAssembly
                       /\ slot' = Ack(stored')
                       /\ \E i \in Indices(stored') :
                            assembling.held = Indices(stored') \ {i}
<1>1. MInv /\ [ModNext]_modVars => [stored' # stored => Whole]_modVars
  <2> SUFFICES ASSUME MInv, [ModNext]_modVars, stored' # stored
               PROVE  Whole
    OBVIOUS
  <2>1. ASSUME NEW d \in Arrivals, HearDatagram(d)
        PROVE  Whole
    <3>1. d.type = "C" /\ OnChunk(d)
      BY <2>1 DEF HearDatagram, OnDatagram, OnPing, OnProbe, OnEndOfWindow,
                  OnOtherVersion
    <3>2. /\ assembling.id = d.id /\ d.index \notin assembling.held
          /\ assembling.held \cup {d.index} = Indices(d.id)
          /\ Finish(d.id)
      BY <3>1 DEF OnChunk
    <3>3. assembling' = NoAssembly /\ stored' = d.id /\ slot' = Ack(d.id)
      BY <3>2 DEF Finish
    <3>4. d.index \in Indices(d.id)
      BY <3>1, Named
    <3>5. assembling.held = Indices(d.id) \ {d.index}
      BY <3>2
    <3> QED
      BY <3>2, <3>3, <3>4, <3>5
  <2>2. CASE TakeAnswer
    BY <2>2 DEF TakeAnswer
  <2>3. CASE Save
    BY <2>3 DEF Save
  <2>4. CASE Load
    BY <2>4
  <2>5. CASE UNCHANGED modVars
    BY <2>5 DEF modVars
  <2> QED
    BY <2>1, <2>2, <2>3, <2>4, <2>5 DEF ModNext
<1> QED
  BY <1>1, ModInvariant, PTL DEF ModSpec, StoredChangesWhole

(* What has arrived of a snapshot is only lost to a probe of another one,   *)
(* to its own last chunk or to a load.  A probe of the stored snapshot ends *)
(* a reassembly, and that is never one of the stored snapshot.              *)
THEOREM ModProgressKept == ModSpec => ProgressKept
<1> DEFINE Ended == Load \/ \E d \in Arrivals : HearDatagram(d) /\ Ends(d)
<1>1. MInv /\ [ModNext]_modVars => [Lost => Ended]_modVars
  <2> SUFFICES ASSUME MInv, [ModNext]_modVars, Lost
               PROVE  Ended
    OBVIOUS
  <2>1. assembling' # assembling
    BY DEF Lost
  <2>2. ASSUME NEW d \in Arrivals, HearDatagram(d)
        PROVE  Ends(d)
    <3>1. CASE d.type = "W" /\ OnProbe(d)
      <4>1. assembling.id # stored
        BY DEF Lost, MInv, AssemblySound
      <4> QED
        BY <2>1, <3>1, <4>1 DEF OnProbe, Ends
    <3>2. CASE d.type = "C" /\ OnChunk(d)
      <4>1. CASE assembling' = [assembling EXCEPT !.held = @ \cup {d.index}]
        <5>1. /\ assembling'.id = assembling.id
              /\ assembling'.held = assembling.held \cup {d.index}
          BY <4>1 DEF MInv
        <5> QED
          BY <5>1 DEF Lost
      <4> QED
        BY <2>1, <3>2, <4>1 DEF OnChunk, Ends
    <3> QED
      BY <2>1, <2>2, <3>1, <3>2
      DEF HearDatagram, OnDatagram, OnPing, OnEndOfWindow, OnOtherVersion
  <2>3. ~TakeAnswer /\ ~Save /\ ~UNCHANGED modVars
    BY <2>1 DEF TakeAnswer, Save, modVars
  <2> QED
    BY <2>2, <2>3 DEF ModNext
<1> QED
  BY <1>1, ModInvariant, PTL DEF ModSpec, ProgressKept
-----------------------------------------------------------------------------
(* A report in the slot was made for some of the chunks the mod holds now   *)
(* and an end of window its snapshot has.                                   *)
ReportMade ==
    slot.type = "M" =>
      /\ slot.id \in Ids
      /\ slot.id = assembling.id
      /\ \E held \in SUBSET assembling.held, upto \in 0..Count[slot.id] :
           slot.report = MissingRanges(held, upto)

(* While a report stays in the slot, its reassembly only grows. *)
LEMMA ReportStays ==
    ASSUME MInv, ReportMade, slot' = slot, assembling'.id = assembling.id,
           assembling.held \subseteq assembling'.held
    PROVE  ReportMade'
BY DEF ReportMade

LEMMA EndOfWindowReports ==
    ASSUME MInv, ReportMade, NEW d \in Arrivals, d.type = "E", OnEndOfWindow(d)
    PROVE  ReportMade'
<1>1. d.id \in Ids /\ d.upto \in Nat /\ Count[d.id] \in Nat
  <2>1. d \in BridgeDatagrams
    BY ArrivalsAssumption
  <2> QED
    BY <2>1, CountAssumption DEF BridgeDatagrams
<1>2. assembling' = assembling
  BY DEF OnEndOfWindow
<1>3. CASE slot' = Missing(d.id, d.round, MissingRanges(assembling.held, d.upto))
           /\ assembling.id = d.id /\ d.upto <= Count[d.id]
  <2>1. /\ slot'.id = d.id
        /\ slot'.report = MissingRanges(assembling.held, d.upto)
    BY <1>3 DEF Missing
  <2>2. d.upto \in 0..Count[slot'.id]
    BY <1>1, <1>3, <2>1
  <2>3. assembling.held \in SUBSET assembling'.held
    BY <1>2
  <2> QED
    BY <1>1, <1>2, <1>3, <2>1, <2>2, <2>3 DEF ReportMade
<1>4. CASE slot' = Ack(d.id)
  BY <1>4 DEF Ack, ReportMade
<1>5. CASE slot' = slot
  BY <1>2, <1>5, ReportStays
<1>6. d.upto <= Count[d.id] \/ d.upto > Count[d.id]
  BY <1>1
<1> QED
  BY <1>3, <1>4, <1>5, <1>6 DEF OnEndOfWindow

LEMMA DatagramReports ==
    ASSUME MInv, ReportMade, NEW d \in Arrivals, OnDatagram(d)
    PROVE  ReportMade'
<1>1. ASSUME SetHello, UNCHANGED assembling
      PROVE  ReportMade'
  BY <1>1, ReportStays DEF SetHello, Hello, ReportMade
<1>2. CASE d.type = "W" /\ OnProbe(d)
  BY <1>2 DEF OnProbe, Ack, Ready, ReportMade
<1>3. CASE d.type = "C" /\ OnChunk(d)
  <2>1. CASE Finish(d.id)
    BY <2>1 DEF Finish, Ack, Refusal, ReportMade
  <2>2. CASE slot' = slot /\ assembling' = assembling
    BY <2>2, ReportStays
  <2>3. CASE /\ assembling' = [assembling EXCEPT !.held = @ \cup {d.index}]
             /\ slot' = slot
    <3>1. assembling \in [id: MaybeId, held: SUBSET Nat]
      BY DEF MInv
    <3>2. /\ assembling'.id = assembling.id
          /\ assembling.held \subseteq assembling'.held
      BY <2>3, <3>1
    <3> QED
      BY <2>3, <3>2, ReportStays
  <2> QED
    BY <1>3, <2>1, <2>2, <2>3 DEF OnChunk
<1>4. CASE d.type = "E" /\ OnEndOfWindow(d)
  BY <1>4, EndOfWindowReports
<1> QED
  BY <1>1, <1>2, <1>3, <1>4 DEF OnDatagram, OnPing, OnOtherVersion

(* A report in the slot was made by on_end_of_window of the reassembly it   *)
(* is about, which may only have grown since.                               *)
THEOREM ModReportMade == ModSpec => [](MInv /\ ReportMade)
<1>1. ModInit => ReportMade
  BY DEF ModInit, NoAnswer, ReportMade
<1>2. MInv /\ ReportMade /\ [ModNext]_modVars => ReportMade'
  <2> SUFFICES ASSUME MInv, ReportMade, [ModNext]_modVars
               PROVE  ReportMade'
    OBVIOUS
  <2>1. ASSUME NEW d \in Arrivals, HearDatagram(d)
        PROVE  ReportMade'
    BY <2>1, DatagramReports DEF HearDatagram
  <2>2. CASE TakeAnswer \/ Load
    BY <2>2 DEF TakeAnswer, Load, NoAnswer, ReportMade
  <2>3. CASE Save \/ UNCHANGED modVars
    BY <2>3, ReportStays DEF Save, modVars
  <2> QED
    BY <2>1, <2>2, <2>3 DEF ModNext
<1> QED
  BY <1>1, <1>2, ModInvariant, PTL DEF ModSpec

(* A report names chunks its snapshot has, and every chunk below one it     *)
(* names is held or named too: lowest first, the bridge leaves no hole.     *)
THEOREM ModReportsSkipNothing == ModSpec => []ReportsSkipNothing
<1>1. MInv /\ ReportMade => ReportsSkipNothing
  <2> SUFFICES ASSUME MInv, ReportMade, slot.type = "M"
               PROVE  LET named == ToSet(slot.report)
                      IN  /\ named \subseteq Indices(slot.id)
                          /\ \A i \in named : 0..i \subseteq named \cup assembling.held
    BY DEF ReportsSkipNothing
  <2>1. PICK held \in SUBSET assembling.held, upto \in 0..Count[slot.id] :
          slot.report = MissingRanges(held, upto)
    BY DEF ReportMade
  <2>2. Count[slot.id] \in Nat /\ upto \in Nat /\ upto <= Count[slot.id]
    BY CountAssumption DEF ReportMade
  <2>3. ToSet(slot.report) = Reported(held, upto)
    BY <2>1, <2>2, ReportListsNamed
  <2>4. Reported(held, upto) \subseteq Indices(slot.id)
    <3>1. Reported(held, upto) \in SUBSET (0..(upto - 1))
      BY <2>2, ReportedFinite
    <3> QED
      BY <2>2, <3>1 DEF Indices
  <2>5. \A i \in Reported(held, upto) :
          0..i \subseteq Reported(held, upto) \cup assembling.held
    <3>1. \A i \in Reported(held, upto) : \A j \in 0..i :
            j \in Reported(held, upto) \cup held
      BY <2>2, ReportedFromBelow
    <3> QED
      BY <3>1
  <2> QED
    BY <2>3, <2>4, <2>5
<1> QED
  BY <1>1, ModReportMade, PTL
=============================================================================
