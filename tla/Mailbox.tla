------------------------------ MODULE Mailbox ------------------------------
(* What delivering snapshots promises the planner: the progress and the     *)
(* answer the status message reports, and nothing of how datagrams get      *)
(* there.  The reader keeps one snapshot and can lose it to a load; the     *)
(* planner may hear `delivered` late, and never for a snapshot the reader   *)
(* has not kept; it may hear late, too, that the reader let it go.          *)
EXTENDS Naturals

CONSTANTS Ids, NoId, Verdicts

VARIABLES
    offers,     \* how often the planner handed one over
    target,     \* the snapshot the planner handed over last
    outcome,    \* what the planner is told of it
    kept,       \* the snapshot the reader keeps
    dropped     \* every snapshot the reader has kept and let go so far

mail == <<offers, target, outcome, kept, dropped>>

EverKept == dropped \cup ({kept} \ {NoId})

(* What the reader keeps next; it lets go of what it keeps now. *)
KeepNext(next) ==
    /\ kept' = next
    /\ dropped' = dropped \cup ({kept} \ {next, NoId})

Outcomes == {"none", "pending", "delivered", "refused", "abandoned"}

MailInit ==
    /\ offers = 0
    /\ target = NoId
    /\ outcome = "none"
    /\ kept = NoId
    /\ dropped = {}

(* The planner hands over a snapshot; one the reader was last known to keep *)
(* is delivered at once, and handing over again the one that is under way   *)
(* or delivered starts nothing.  One that was refused or given up starts    *)
(* afresh, and only like this.                                              *)
UnderWay(id) == id = target /\ outcome \in {"pending", "delivered"}

Offer(id) ==
    /\ offers' = offers + 1
    /\ target' = id
    /\ \/ UnderWay(id) /\ outcome' = outcome
       \/ ~UnderWay(id) /\ outcome' = "pending"
       \/ ~UnderWay(id) /\ outcome' = "delivered" /\ id \in EverKept
    /\ UNCHANGED <<kept, dropped>>

Keep(id) ==
    /\ "accept" \in Verdicts[id]
    /\ KeepNext(id)
    /\ UNCHANGED <<offers, target, outcome>>

(* A load goes back to whatever was kept when the game was saved. *)
GoBack ==
    /\ \E old \in EverKept \cup {NoId} : KeepNext(old)
    /\ UNCHANGED <<offers, target, outcome>>

Told(from, to) ==
    /\ outcome \in from
    /\ outcome' = to
    /\ UNCHANGED <<offers, target, kept, dropped>>

(* Even a transfer that was refused or given up can turn out delivered. *)
Confirm ==
    /\ target \in EverKept
    /\ Told({"pending", "refused", "abandoned"}, "delivered")

Refuse ==
    /\ target \in Ids
    /\ "refuse" \in Verdicts[target]
    /\ Told({"pending"}, "refused")

Abandon == Told({"pending"}, "abandoned")

(* The only other way back to pending.  A delivery is taken back only of a  *)
(* snapshot the reader has kept and let go at some time; by when that is    *)
(* heard, it may keep it again.                                             *)
Reopen ==
    /\ target \in dropped
    /\ Told({"delivered"}, "pending")

(* The carrier restarts and remembers nothing. *)
Forget ==
    /\ target' = NoId
    /\ outcome' = "none"
    /\ UNCHANGED <<offers, kept, dropped>>

MailNext ==
    \/ \E id \in Ids : Offer(id) \/ Keep(id)
    \/ GoBack
    \/ Confirm
    \/ Refuse
    \/ Abandon
    \/ Reopen
    \/ Forget

MailSpec == MailInit /\ [][MailNext]_mail
=============================================================================
