----------------------------- MODULE MCDelivery -----------------------------
(* The whole delivery for TLC: a snapshot A the mod accepts and a one-chunk *)
(* snapshot B it refuses.  Windows are of two chunks, sent one at a time:   *)
(* two chunks of A fit one window, three take two, seven take four and,     *)
(* after each of the first three, a report.                                 *)
EXTENDS Delivery

CONSTANTS A, B

MCIds == {A, B}

MCSmallCount == (A :> 2) @@ (B :> 1)

MCMidCount == (A :> 3) @@ (B :> 1)

MCLargeCount == (A :> 7) @@ (B :> 1)

MCVerdicts == (A :> {"accept"}) @@ (B :> {"refuse"})
=============================================================================
