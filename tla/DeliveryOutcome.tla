----------------------------- MODULE DeliveryOutcome -----------------------------
(***************************************************************************)
(* What the recipient of an alert is promised, whoever dispatches it: a    *)
(* planned delivery gets one final outcome, it is reported as sent only    *)
(* when Telegram accepted the message, and the outcome is never revised.   *)
(* A message may still arrive after a delivery was closed as failed: the   *)
(* promise is at least once, not exactly once.                             *)
(***************************************************************************)
CONSTANT Deliveries

VARIABLES
    outcome,    \* what the database says
    delivered   \* the deliveries whose message Telegram accepted

vars == <<outcome, delivered>>

Finals == {"SENT", "FAILED", "SUPPRESSED"}

Init ==
    /\ outcome = [d \in Deliveries |-> "NONE"]
    /\ delivered = {}

\* An alert plans any set of deliveries that were not planned yet.
PlanSome ==
    /\ \E D \in SUBSET {d \in Deliveries : outcome[d] = "NONE"} :
         outcome' = [d \in Deliveries |-> IF d \in D THEN "OPEN" ELSE outcome[d]]
    /\ UNCHANGED delivered

\* Telegram accepts the message of a planned delivery.
Arrive(d) ==
    /\ outcome[d] # "NONE"
    /\ delivered' = delivered \cup {d}
    /\ UNCHANGED outcome

\* Open deliveries are closed, as sent only when they were delivered.
CloseSome(final) ==
    /\ \E D \in SUBSET {d \in Deliveries : outcome[d] = "OPEN"} :
         /\ final = "SENT" => D \subseteq delivered
         /\ outcome' = [d \in Deliveries |-> IF d \in D THEN final ELSE outcome[d]]
    /\ UNCHANGED delivered

Next ==
    \/ PlanSome
    \/ \E d \in Deliveries : Arrive(d)
    \/ \E final \in Finals : CloseSome(final)

Spec == Init /\ [][Next]_vars
=============================================================================
