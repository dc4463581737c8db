-------------------------------- MODULE Wire --------------------------------
(* The datagrams the bridge and the mod exchange over UDP on the loopback   *)
(* interface.  A snapshot is named by its id: its bytes, and with them its  *)
(* chunk count, are a function of the id, so a datagram that carries        *)
(* `count` and `bytes` next to the id carries only the id here.             *)
(*                                                                          *)
(* The ranges of a missing report ("0-2,5") are the sequence of the indices *)
(* they name, lowest first: <<0, 1, 2, 5>>.  "-" is the empty sequence.     *)
EXTENDS Integers, Sequences

CONSTANTS
    Ids,            \* snapshot ids the planner can hold
    NoId,           \* the no-id value, sixteen dashes on the wire
    Count           \* Count[id] is the chunk count of the snapshot named id

ASSUME NoIdAssumption == NoId \notin Ids

ASSUME CountAssumption == Count \in [Ids -> Nat \ {0}]

MaybeId == Ids \cup {NoId}

Min2(a, b) == IF a <= b THEN a ELSE b

-----------------------------------------------------------------------------
(* Bridge to mod. *)

Ping(newest) == [type |-> "P", newest |-> newest]

Probe(id) == [type |-> "W", id |-> id]

Chunk(id, index) == [type |-> "C", id |-> id, index |-> index]

EndOfWindow(id, round, upto) ==
    [type |-> "E", id |-> id, round |-> round, upto |-> upto]

(* A datagram of another protocol version, in either direction. *)
OtherVersion == [type |-> "V"]

BridgeDatagrams ==
    [type: {"P"}, newest: MaybeId]
      \cup [type: {"W"}, id: Ids]
      \cup [type: {"C"}, id: Ids, index: Nat]
      \cup [type: {"E"}, id: Ids, round: Nat, upto: Nat]
      \cup [type: {"V"}]

(* Padded to the size of a chunk: the datagrams the buffer budget counts. *)
FullSize(d) == d.type \in {"W", "C"}

-----------------------------------------------------------------------------
(* Mod to bridge. *)

Hello(stored, assembling) ==
    [type |-> "H", stored |-> stored, assembling |-> assembling]

Ready(id) == [type |-> "R", id |-> id]

Missing(id, round, report) ==
    [type |-> "M", id |-> id, round |-> round, report |-> report]

Ack(id) == [type |-> "A", id |-> id]

Refusal(id) == [type |-> "N", id |-> id]

(* A report names each chunk once, lowest first. *)
Ascending ==
    {report \in Seq(Nat) :
        \A j, k \in DOMAIN report : j < k => report[j] < report[k]}

ModDatagrams ==
    [type: {"H"}, stored: MaybeId, assembling: MaybeId]
      \cup [type: {"R", "A", "N"}, id: Ids]
      \cup [type: {"M"}, id: Ids, round: Nat, report: Ascending]
      \cup [type: {"V"}]
=============================================================================
