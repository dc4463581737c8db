----------------------------- MODULE ModReceiver -----------------------------
(* The mod's receive side: mod/lib/receiver.lua, and the part of            *)
(* mod/control.lua that polls, flushes the answer slot and keeps the stored *)
(* snapshot in `storage`.                                                   *)
(*                                                                          *)
(* `stored` lives in `storage` and is what a save holds (`saved`); the rest *)
(* is plain Lua state, which a load starts empty.  A poll raises one packet *)
(* event per datagram; each is a step here, and since another mod's         *)
(* recv_udp may poll at any tick, a flush may fall between any two.         *)
EXTENDS Wire, FiniteSets, SequencesExt

CONSTANTS
    Verdicts,           \* Verdicts[id]: how finishing that snapshot can end
    MAX_REPORT_RANGES   \* ranges in a report, 12

ASSUME VerdictsAssumption ==
    Verdicts \in [Ids -> (SUBSET {"accept", "refuse"}) \ {{}}]

ASSUME RangesAssumption == MAX_REPORT_RANGES \in Nat \ {0}

VARIABLES
    stored,         \* the id of the stored snapshot
    assembling,     \* the reassembly: its id and the chunks held
    slot,           \* the one answer waiting for the flush
    newest,         \* the id in the last ping
    mismatch,       \* the last datagram was of another version
    heard,          \* a datagram arrived since the load
    saved           \* the id `stored` had when the game was last saved

modVars == <<stored, assembling, slot, newest, mismatch, heard, saved>>

NoAssembly == [id |-> NoId, held |-> {}]

NoAnswer == [type |-> "none"]

Indices(id) == 0..(Count[id] - 1)

(* A new game: nothing stored, nothing heard. *)
ModInit ==
    /\ stored = NoId
    /\ saved = NoId
    /\ assembling = NoAssembly
    /\ slot = NoAnswer
    /\ newest = NoId
    /\ mismatch = FALSE
    /\ heard = FALSE

-----------------------------------------------------------------------------
(* The report of an end of window: the missing indices below upto, up to    *)
(* the end of their MAX_REPORT_RANGES-th run of neighbours.                 *)

MissingBelow(held, upto) == {i \in 0..(upto - 1) : i \notin held}

(* Mutant: the limit on the ranges keeps the last ones. *)
RunsFrom(missing, i) == Cardinality({j \in missing : j >= i /\ j + 1 \notin missing})

RunsUpTo(missing, i) == Cardinality({j \in missing : j <= i /\ j - 1 \notin missing})

Reported(held, upto) ==
    LET missing == MissingBelow(held, upto)
    IN  {i \in missing : RunsUpTo(missing, i) <= MAX_REPORT_RANGES}

(* Lowest first. *)
MissingRanges(held, upto) ==
    LET named == Reported(held, upto)
    IN  [k \in 1..Cardinality(named) |->
            CHOOSE i \in named : Cardinality({j \in named : j < i}) = k - 1]

-----------------------------------------------------------------------------
(* The answer slot: a hello only fills an empty one. *)

SetHello ==
    slot' = IF slot = NoAnswer THEN Hello(stored, assembling.id) ELSE slot

OnPing(d) ==
    /\ newest' = d.newest
    /\ SetHello
    /\ UNCHANGED <<stored, assembling>>

(* Mutants: the stored snapshot is taken again; a ready does not replace    *)
(* another answer; a probe starts the reassembly over.                      *)
OnProbeUnchecked(d) ==
    /\ slot' = Ready(d.id)
    /\ assembling' = IF assembling.id = d.id
                     THEN assembling
                     ELSE [id |-> d.id, held |-> {}]
    /\ UNCHANGED <<stored, newest>>

OnProbePolite(d) ==
    /\ IF d.id = stored
       THEN assembling' = NoAssembly /\ slot' = Ack(d.id)
       ELSE /\ slot' = IF slot = NoAnswer THEN Ready(d.id) ELSE slot
            /\ assembling' = IF assembling.id = d.id
                             THEN assembling
                             ELSE [id |-> d.id, held |-> {}]
    /\ UNCHANGED <<stored, newest>>

OnProbeRestarting(d) ==
    /\ IF d.id = stored
       THEN assembling' = NoAssembly /\ slot' = Ack(d.id)
       ELSE slot' = Ready(d.id) /\ assembling' = [id |-> d.id, held |-> {}]
    /\ UNCHANGED <<stored, newest>>

OnProbe(d) ==
    /\ IF d.id = stored
       THEN assembling' = NoAssembly /\ slot' = Ack(d.id)
       ELSE /\ slot' = Ready(d.id)
            /\ assembling' = IF assembling.id = d.id
                             THEN assembling
                             ELSE [id |-> d.id, held |-> {}]
    /\ UNCHANGED <<stored, newest>>

(* Mutant: a refusal loses the previous snapshot. *)
FinishForgetting(id) ==
    /\ assembling' = NoAssembly
    /\ \/ "accept" \in Verdicts[id] /\ stored' = id /\ slot' = Ack(id)
       \/ "refuse" \in Verdicts[id] /\ stored' = NoId /\ slot' = Refusal(id)

(* The last chunk is in: the snapshot is decoded, validated and stored, or  *)
(* refused with the previous one kept.                                      *)
Finish(id) ==
    /\ assembling' = NoAssembly
    /\ \/ "accept" \in Verdicts[id] /\ stored' = id /\ slot' = Ack(id)
       \/ "refuse" \in Verdicts[id] /\ slot' = Refusal(id) /\ UNCHANGED stored

OnChunk(d) ==
    /\ IF assembling.id # d.id \/ d.index \in assembling.held
       THEN UNCHANGED <<stored, assembling, slot>>
       ELSE IF assembling.held \cup {d.index} = Indices(d.id)
       THEN Finish(d.id)
       ELSE /\ assembling' = [assembling EXCEPT !.held = @ \cup {d.index}]
            /\ UNCHANGED <<stored, slot>>
    /\ UNCHANGED newest

OnEndOfWindow(d) ==
    /\ slot' = IF d.id = stored
               THEN Ack(d.id)
               ELSE IF assembling.id # d.id \/ d.upto > Count[d.id]
               THEN slot
               ELSE Missing(d.id, d.round, MissingRanges(assembling.held, d.upto))
    /\ UNCHANGED <<stored, assembling, newest>>

OnOtherVersion == SetHello /\ UNCHANGED <<stored, assembling, newest>>

OnDatagram(d) ==
    /\ heard' = TRUE
    /\ mismatch' = (d.type = "V")
    /\ \/ d.type = "P" /\ OnPing(d)
       \/ d.type = "W" /\ OnProbe(d)
       \/ d.type = "C" /\ OnChunk(d)
       \/ d.type = "E" /\ OnEndOfWindow(d)
       \/ d.type = "V" /\ OnOtherVersion
    /\ UNCHANGED saved

(* The flush empties the slot, whether or not the datagram gets through. *)
TakeAnswer ==
    /\ slot # NoAnswer
    /\ slot' = NoAnswer
    /\ UNCHANGED <<stored, assembling, newest, mismatch, heard, saved>>

Save ==
    /\ saved' = stored
    /\ UNCHANGED <<stored, assembling, slot, newest, mismatch, heard>>

Load ==
    /\ stored' = saved
    /\ assembling' = NoAssembly
    /\ slot' = NoAnswer
    /\ newest' = NoId
    /\ mismatch' = FALSE
    /\ heard' = FALSE
    /\ UNCHANGED saved

(* The indicator: disconnected before the first datagram after a load (the  *)
(* other way, a long silence, is a matter of ticks), else the mismatch,     *)
(* else a stored snapshot that is not the planner's newest.                 *)
IsStale == stored # NoId /\ newest # NoId /\ newest # stored

Indicator ==
    IF ~heard THEN "disconnected"
    ELSE IF mismatch THEN "mismatch"
    ELSE IF IsStale THEN "stale"
    ELSE "none"

-----------------------------------------------------------------------------
(* A reassembly is never of the stored snapshot, holds chunks the snapshot  *)
(* has, and is never complete: completing it ends it in the same event.     *)
AssemblySound ==
    IF assembling.id = NoId
    THEN assembling.held = {}
    ELSE /\ assembling.id # stored
         /\ assembling.held \subseteq Indices(assembling.id)
         /\ assembling.held # Indices(assembling.id)

(* What waits in the slot is still true when the flush sends it: every      *)
(* event that makes an answer false also replaces it.  A report may name a  *)
(* chunk that arrived after it.                                             *)
SlotTruth ==
    CASE slot.type = "A" -> slot.id = stored
      [] slot.type = "R" -> slot.id = assembling.id
      [] slot.type = "M" -> slot.id = assembling.id
      [] slot.type = "N" -> assembling = NoAssembly /\ slot.id # stored
      [] slot.type = "H" -> slot.stored = stored /\ slot.assembling = assembling.id
      [] OTHER -> TRUE
=============================================================================
