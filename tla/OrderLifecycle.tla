---------------------------- MODULE OrderLifecycle ----------------------------
(***************************************************************************)
(* What the supervised submit path promises about one paper order intent,  *)
(* and nothing about how: an operator approves the exact intent, the       *)
(* intent is made durable, it is placed at the broker at most once, and    *)
(* the placed order settles once.  OrderSubmission implements this.        *)
(***************************************************************************)
CONSTANT Intents

VARIABLE phase      \* where each order intent stands

Phases == {"proposed", "approved", "recorded", "working", "filled", "canceled"}

Init == phase = [i \in Intents |-> "proposed"]

Advance(i, from, to) ==
    /\ phase[i] = from
    /\ phase' = [phase EXCEPT ![i] = to]

\* The operator authorises these order details.
Approve(i) == Advance(i, "proposed", "approved")

\* The intent is in the audit database before anything leaves the process.
Record(i) == Advance(i, "approved", "recorded")

\* The broker takes the order: the only way into "working", and no way back.
Place(i) == Advance(i, "recorded", "working")

Settle(i) == Advance(i, "working", "filled") \/ Advance(i, "working", "canceled")

Next == \E i \in Intents : Approve(i) \/ Record(i) \/ Place(i) \/ Settle(i)

Spec == Init /\ [][Next]_phase
===============================================================================
