--------------------------- MODULE MCBridgeSession ---------------------------
(* A small bridge: a snapshot of three chunks and one of one chunk, windows *)
(* of two, rounds that wrap after two.                                      *)
EXTENDS BridgeSession, FiniteSets, SequencesExt

CONSTANTS A, B

MCIds == {A, B}

MCCount == (A :> 3) @@ (B :> 1)

(* Ascending reports, of indices the snapshots have and of one they lack. *)
Reports == {SetToSortSeq(S, <) : S \in SUBSET (0..2)} \cup {<<3>>}

MCInputs ==
    [type: {"H"}, stored: MCIds \cup {NoId}, assembling: MCIds \cup {NoId}]
      \cup [type: {"R", "A", "N"}, id: MCIds]
      \cup [type: {"M"}, id: MCIds, round: 0..1, report: Reports]
      \cup [type: {"V"}]
=============================================================================
