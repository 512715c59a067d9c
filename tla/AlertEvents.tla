------------------------------ MODULE AlertEvents ------------------------------
(***************************************************************************)
(* The durable alert events of one vehicle and the lifecycle operations on *)
(* them.  Source: alert-events-lifecycle.service.ts and                    *)
(* prisma-alert-events.repository.ts.  Each operation is one transaction;  *)
(* it yields [ok, alerts], and a transaction that throws yields ok = FALSE *)
(* and leaves the alerts as they were.                                     *)
(*                                                                         *)
(* alerts.events[type] is a function from the confirmation time of an      *)
(* event (its dedupe key) to the event; alerts.receipts[type] one from the *)
(* observation time of a confirmation to its receipt, which names its      *)
(* event by that event's confirmation time.  The values stored next to a   *)
(* time (speed, coordinates, distance) belong to the immutable journal row *)
(* of that time, so comparing times compares them too.                     *)
(***************************************************************************)
EXTENDS Integers

AlertTypes == {"SPEEDING", "INACTIVITY"}

NoAlerts == [events   |-> [k \in AlertTypes |-> <<>>],
             receipts |-> [k \in AlertTypes |-> <<>>]]

Done(alerts)   == [ok |-> TRUE,  alerts |-> alerts]
Thrown(alerts) == [ok |-> FALSE, alerts |-> alerts]

\* A row written under a key, over the one that may be there.
Put(rows, key, row) == [k \in DOMAIN rows \union {key} |-> IF k = key THEN row ELSE rows[k]]

\* Mutant: the status is not part of the lookup.
EventsOfAnyStatus(alerts, kind) == DOMAIN alerts.events[kind]

\* findOpenByVehicleAndType: a unique active key admits one at a time.
OpenEvents(alerts, kind) ==
    {e \in DOMAIN alerts.events[kind] : alerts.events[kind][e].status = "OPEN"}

WithEvent(alerts, kind, e, event) ==
    [alerts EXCEPT !.events[kind] = Put(@, e, event)]

\* Mutant: the receipt is not written.
WithoutReceipt(alerts, kind, at, receipt) == alerts

WithReceipt(alerts, kind, at, receipt) ==
    [alerts EXCEPT !.receipts[kind] = Put(@, at, receipt)]

\* Mutant: an existing receipt is a conflict, whatever it says.
NeverSameEvidence(receipt, streak, at) == FALSE

\* The streak start and the last speeding point are null for inactivity.
SameEvidence(receipt, streak, at) == receipt.streak = streak /\ receipt.lastSpeeding >= at

Receipt(kind, e, streak, at) ==
    [event |-> e, streak |-> streak, lastSpeeding |-> at]

\* Mutant: only the receipt is brought forward.
TouchReceipt(alerts, kind, e, at, confirmedAt) ==
    IF kind = "SPEEDING" /\ confirmedAt \in DOMAIN alerts.receipts[kind]
    THEN Done([alerts EXCEPT !.receipts[kind][confirmedAt].lastSpeeding = at])
    ELSE Done(alerts)

\* updateOpen: only a receipt of the same event can follow its last point.
Touch(alerts, kind, e, at, confirmedAt) ==
    LET touched == [alerts EXCEPT !.events[kind][e].last = at]
        receipts == alerts.receipts[kind]
    IN  IF kind = "INACTIVITY" THEN Done(touched)
        ELSE IF /\ confirmedAt \in DOMAIN receipts
                /\ receipts[confirmedAt].event = e
                /\ receipts[confirmedAt].lastSpeeding <= at
        THEN Done([touched EXCEPT !.receipts[kind][confirmedAt].lastSpeeding = at])
        ELSE Thrown(alerts)

\* registerConfirmation: replay an exact receipt, join the open event, or open one.
Register(alerts, kind, at, streak) ==
    LET receipts == alerts.receipts[kind]
        open     == OpenEvents(alerts, kind)
        fresh    == WithEvent(alerts, kind, at, [status |-> "OPEN", last |-> at, resolved |-> 0])
        joined(e) == WithReceipt(alerts, kind, at, Receipt(kind, e, streak, at))
    IN  IF at \in DOMAIN receipts
        THEN IF SameEvidence(receipts[at], streak, at) THEN Done(alerts) ELSE Thrown(alerts)
        ELSE IF open = {}
        THEN Done(WithReceipt(fresh, kind, at, Receipt(kind, at, streak, at)))
        ELSE LET e == CHOOSE x \in open : TRUE
             IN  IF at <= alerts.events[kind][e].last THEN Done(joined(e))
                 ELSE Touch(joined(e), kind, e, at, at)

\* update: an equal time is a retry of what this event already holds.
Update(alerts, kind, at, confirmedAt) ==
    LET open     == OpenEvents(alerts, kind)
        e        == CHOOSE x \in open : TRUE
        last     == alerts.events[kind][e].last
        receipts == alerts.receipts[kind]
        applied  == /\ confirmedAt \in DOMAIN receipts
                    /\ receipts[confirmedAt].event = e
                    /\ receipts[confirmedAt].lastSpeeding = at
    IN  IF open = {} THEN Done(alerts)
        ELSE IF at < last THEN Done(alerts)
        ELSE IF at = last
        THEN IF kind = "INACTIVITY" \/ applied THEN Done(alerts) ELSE Thrown(alerts)
        ELSE Touch(alerts, kind, e, at, confirmedAt)

Resolve(alerts, kind, at) ==
    LET open == OpenEvents(alerts, kind)
        e    == CHOOSE x \in open : TRUE
    IN  IF open = {} THEN Done(alerts)
        ELSE IF at <= alerts.events[kind][e].last THEN Done(alerts)
        ELSE Done(WithEvent(alerts, kind, e,
                            [status |-> "RESOLVED", last |-> at, resolved |-> at]))

\* The action a detection maps to, applied.
Process(alerts, kind, status, at, streak, confirmedAt) ==
    CASE status = "CONFIRMED" -> Register(alerts, kind, at, streak)
      [] status = "ACTIVE"    -> Update(alerts, kind, at, confirmedAt)
      [] status = "CLEAR"     -> Resolve(alerts, kind, at)
      [] OTHER                -> Done(alerts)
=============================================================================
