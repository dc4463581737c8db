---------------------------- MODULE MCModSession ----------------------------
(* Three snapshots: one of three chunks, one of one chunk, one of two that  *)
(* the mod may refuse.                                                      *)
EXTENDS ModSession

CONSTANTS A, B, C

MCIds == {A, B, C}

MCCount == (A :> 3) @@ (B :> 1) @@ (C :> 2)

MCVerdicts ==
    (A :> {"accept"}) @@ (B :> {"accept"}) @@ (C :> {"accept", "refuse"})

MCArrivals ==
    [type: {"P"}, newest: MCIds \cup {NoId}]
      \cup [type: {"W"}, id: MCIds]
      \cup {Chunk(id, i) : id \in MCIds, i \in 0..0}
      \cup {Chunk(A, 1), Chunk(A, 2), Chunk(C, 1)}
      \cup [type: {"E"}, id: MCIds, round: {0}, upto: 1..3]
      \cup [type: {"V"}]
=============================================================================
