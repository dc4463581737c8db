----------------------------- MODULE ModSession -----------------------------
(* A mod that hears any datagram the wire format allows, in any order, from *)
(* any bridge, between flushes, saves and loads.                            *)
EXTENDS ModReceiver

CONSTANT Arrivals       \* what may arrive

ASSUME ArrivalsAssumption ==
    \A d \in Arrivals : /\ d \in BridgeDatagrams
                        /\ d.type = "C" => d.index < Count[d.id]

HearDatagram(d) == OnDatagram(d)

ModNext ==
    \/ \E d \in Arrivals : HearDatagram(d)
    \/ TakeAnswer
    \/ Save
    \/ Load

ModSpec == ModInit /\ [][ModNext]_modVars

-----------------------------------------------------------------------------
(* The stored snapshot is replaced only by a complete reassembly that was   *)
(* accepted, answered with an ack, or by a load; a refusal keeps it.        *)
StoredChangesWhole ==
    [][ stored' # stored =>
          \/ Load
          \/ /\ stored' = assembling.id
             /\ assembling' = NoAssembly
             /\ slot' = Ack(stored')
             /\ \E i \in Indices(stored') :
                  assembling.held = Indices(stored') \ {i} ]_modVars

(* A report names chunks of its snapshot and skips only chunks the mod      *)
(* holds: whatever the limit on its ranges cuts off comes after all of it,  *)
(* so the bridge, which sends reported chunks lowest first, leaves no hole. *)
ReportsSkipNothing ==
    slot.type = "M" =>
      LET named == ToSet(slot.report)
      IN  /\ named \subseteq Indices(slot.id)
          /\ \A i \in named : 0..i \subseteq named \cup assembling.held

(* What has arrived of a snapshot is only ever lost to a probe of another   *)
(* one, to its own last chunk or to a load: a probe of the same snapshot,   *)
(* which the bridge sends again and again, late chunks of others, reports,  *)
(* pings and flushes keep it, whatever the slot and the stored snapshot.    *)
Lost ==
    /\ assembling.id # NoId
    /\ ~(assembling'.id = assembling.id /\ assembling.held \subseteq assembling'.held)

Ends(d) ==
    \/ d.type = "W" /\ d.id # assembling.id
    \/ /\ d.type = "C" /\ d.id = assembling.id
       /\ assembling.held \cup {d.index} = Indices(d.id)

ProgressKept ==
    [][ Lost => Load \/ \E d \in Arrivals : HearDatagram(d) /\ Ends(d) ]_modVars
=============================================================================
