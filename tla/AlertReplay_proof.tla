---------------------------- MODULE AlertReplay_proof ----------------------------
(***************************************************************************)
(* Proofs about AlertReplay for any fixes, policies, failures, restarts    *)
(* and settings changes.                                                   *)
(***************************************************************************)
EXTENDS AlertReplay, FiniteSetTheorems, SequenceTheorems, TLAPS

-----------------------------------------------------------------------------
(* The inductive invariant.                                                 *)

Environment ==
    [policy : Policies, payloads : (SUBSET [kph : Nat, pos : Int]) \ {{}}, choices : SUBSET Policies,
     late : BOOLEAN, last : Times, faults : Nat, changes : Nat]

Sample == [kph : Nat, pos : Int, processed : BOOLEAN, eligible : BOOLEAN]
Event == [status : {"OPEN", "RESOLVED"}, last : Times, resolved : Times \union {0}]
Evidence == [event : Times, streak : Nat, lastSpeeding : Times]

\* The events and receipts of both kinds have their types.
Shaped(a) ==
    /\ DOMAIN a = {"events", "receipts"}
    /\ DOMAIN a.events = AlertTypes /\ DOMAIN a.receipts = AlertTypes

AlertsTyped(a) ==
    /\ Shaped(a)
    /\ \A k \in AlertTypes :
         /\ DOMAIN a.events[k] \subseteq Times /\ DOMAIN a.receipts[k] \subseteq Times
         /\ \A e \in DOMAIN a.events[k] : a.events[k][e] \in Event
         /\ \A r \in DOMAIN a.receipts[k] : a.receipts[k][r] \in Evidence

\* A receipt is of an event, and its last speeding point within it; an event
\* is opened by the confirmation whose receipt it has.
AlertsAgree(a) ==
    \A k \in AlertTypes :
        /\ DOMAIN a.events[k] \subseteq DOMAIN a.receipts[k]
        /\ \A r \in DOMAIN a.receipts[k] :
             /\ a.receipts[k][r].event \in DOMAIN a.events[k]
             /\ a.receipts[k][r].lastSpeeding <= a.events[k][a.receipts[k][r].event].last

\* The alerts tell of nothing after a time.
Upto(a, at) ==
    \A k \in AlertTypes :
        /\ \A r \in DOMAIN a.receipts[k] : r <= at
        /\ \A e \in DOMAIN a.events[k] :
             e <= at /\ a.events[k][e].last <= at /\ a.events[k][e].resolved <= at

\* EpisodesDisjoint, of any alerts.
Disjoint(a) ==
    \A k \in AlertTypes : \A d, e \in DOMAIN a.events[k] :
        d < e => /\ a.events[k][d].status = "RESOLVED"
                 /\ a.events[k][d].resolved <= e

Pcs == {"idle", "drain", "bootstrap", "restore", "prime", "detectSpeeding",
        "detectInactivity", "writeSpeeding", "writeInactivity", "complete"}

WorldTyped ==
    env \in Environment /\ settings \in Chosen /\ changed \subseteq {"speeding", "inactivity"}

RowsTyped ==
    /\ Journaled \subseteq Times
    /\ \A t \in Journaled : /\ journal[t] \in Sample
                            /\ [kph |-> journal[t].kph, pos |-> journal[t].pos] \in env.payloads
                            /\ journal[t].eligible => journal[t].processed

\* The alerts tell of these rows only.
AlertsOf(a, rows) ==
    \A k \in AlertTypes :
        /\ DOMAIN a.receipts[k] \subseteq rows
        /\ \A e \in DOMAIN a.events[k] :
             a.events[k][e].last \in rows /\ a.events[k][e].resolved \in rows \union {0}

WorkTyped ==
    /\ DOMAIN memory = {"ready", "frontier", "speeding", "inactivity"} /\ memory.ready \in BOOLEAN
    /\ DOMAIN task = {"pc", "target", "rows", "snapshot", "speeding", "inactivity"} /\ task.pc \in Pcs
    /\ task.speeding.streak \in Nat

Types == WorldTyped /\ RowsTyped /\ AlertsTyped(alerts) /\ AlertsOf(alerts, Journaled) /\ WorkTyped

\* A task works on the pending rows up to its target.
TaskKnows ==
    /\ task.pc # "idle" => task.target \in Pending
    /\ task.pc \notin {"idle", "drain"} => task.rows = {t \in Pending : t <= task.target}
    /\ task.pc \in {"idle", "drain"} => task.rows = {}

\* The row in progress has been seen by the speeding detector.
MidRow == task.pc \in {"detectInactivity", "writeSpeeding", "writeInactivity", "complete"}

\* The rows the speeding detector has counted.
Counted == IF MidRow /\ ReplayEligible(Current) THEN Eligible \union {Current} ELSE Eligible

Latest(rows) == IF rows = {} THEN 0 ELSE Max(rows)

\* A detector state is true of the rows it counted.
TrueOf(st, rows, j) ==
    /\ st.last = Latest(rows)
    /\ st.count \in Nat /\ st.streak \in Nat /\ st.confirmed \in BOOLEAN
    /\ st.streak = 0 <=> st.count = 0
    /\ st.confirmed => st.count > 0
    /\ st.count > 0 =>
         LET streak == {t \in rows : t >= st.streak} IN
         /\ st.streak \in rows
         /\ st.count = Cardinality(streak)
         /\ \A t \in streak : /\ Context(st.fp, j[t].pos) = st.ctx
                              /\ j[t].kph > st.ctx.threshold

Registered(st, a) ==
    st.confirmed => /\ st.confirmedAt \in DOMAIN a.receipts["SPEEDING"]
                    /\ a.receipts["SPEEDING"][st.confirmedAt].streak = st.streak

\* A confirmation that is about to be written.
Unwritten(st) ==
    /\ task.pc \in {"detectInactivity", "writeSpeeding"}
    /\ task.speeding.status = "CONFIRMED"
    /\ st.confirmedAt = Current /\ st.streak = task.speeding.streak

\* Whoever knows the replay knows it as it is.
MemoryKnows ==
    /\ task.pc \in {"bootstrap", "restore", "prime"} => ~memory.ready
    /\ MidRow \/ task.pc = "detectSpeeding" => memory.ready
    /\ task.pc = "restore" => memory.speeding = NoSpeeding
    /\ ~memory.ready => memory.frontier = 0
    /\ memory.ready => memory.frontier = LatestEligible
    /\ memory.ready \/ task.pc = "prime" =>
         /\ TrueOf(memory.speeding, Counted, journal)
         /\ Registered(memory.speeding, alerts) \/ Unwritten(memory.speeding)

CheckpointKnows == TrueOf(checkpoint, Eligible, journal) /\ Registered(checkpoint, alerts)

\* Samples of the journal that justify a confirmation under a policy.
Justifies(j, chosen, streak, at) ==
    \E s \in chosen :
        LET samples == {t \in DOMAIN j : streak <= t /\ t <= at}
        IN  /\ s.speedOn /\ s.fence /\ Cardinality(samples) >= s.confirm
            /\ \A t \in samples : j[t].kph > Context(s, j[t].pos).threshold

\* With fixes in order the rows are processed in order, and the alerts tell of
\* no row that is still to come.
RowsInOrder ==
    /\ \A t \in Journaled : journal[t].processed => journal[t].eligible
    /\ \A t \in Eligible, u \in Pending : t < u
    /\ \A u \in Pending : Upto(alerts, u)
    /\ Disjoint(alerts)
    /\ SpeedingJustified

\* The task of such a vehicle is at its newest row, and a confirmation it is
\* about to write is justified.
TaskInOrder ==
    /\ task.pc # "idle" => \A t \in Journaled : t <= task.target
    /\ task.pc \in {"detectInactivity", "writeSpeeding"} /\ task.speeding.status = "CONFIRMED"
         => Justifies(journal, Chosen, task.speeding.streak, Current)

InOrderKnows == ~env.late => RowsInOrder /\ TaskInOrder

IInv ==
    /\ Types /\ AlertsAgree(alerts) /\ TaskKnows /\ MemoryKnows /\ CheckpointKnows /\ InOrderKnows
-----------------------------------------------------------------------------
(* The operations on the alert events.                                      *)

LEMMA TwoKinds == AlertTypes = {"SPEEDING", "INACTIVITY"}
  BY DEF AlertTypes

\* Only the events and receipts of one kind change.
Frame(a, b, k) ==
    /\ Shaped(b)
    /\ \A o \in AlertTypes : o # k => b.events[o] = a.events[o] /\ b.receipts[o] = a.receipts[o]

LEMMA WithEventIs ==
    ASSUME NEW a, Shaped(a), NEW k \in AlertTypes, NEW e, NEW event
    PROVE  LET b == WithEvent(a, k, e, event) IN
           /\ Frame(a, b, k)
           /\ b.events[k] = Put(a.events[k], e, event) /\ b.receipts[k] = a.receipts[k]
  BY DEF WithEvent, Frame, Shaped

LEMMA WithReceiptIs ==
    ASSUME NEW a, Shaped(a), NEW k \in AlertTypes, NEW at, NEW receipt
    PROVE  LET b == WithReceipt(a, k, at, receipt) IN
           /\ Frame(a, b, k)
           /\ b.events[k] = a.events[k] /\ b.receipts[k] = Put(a.receipts[k], at, receipt)
  BY DEF WithReceipt, Frame, Shaped

\* The event moves on to a later point.
LEMMA TouchedIs ==
    ASSUME NEW a, Shaped(a), NEW k \in AlertTypes, NEW e \in DOMAIN a.events[k], NEW at
    PROVE  LET b == [a EXCEPT !.events[k][e].last = at] IN
           /\ Frame(a, b, k) /\ b.receipts[k] = a.receipts[k]
           /\ DOMAIN b.events[k] = DOMAIN a.events[k]
           /\ b.events[k][e] = [a.events[k][e] EXCEPT !.last = at]
           /\ \A x \in DOMAIN a.events[k] : x # e => b.events[k][x] = a.events[k][x]
  BY DEF Frame, Shaped

LEMMA TouchedReceiptIs ==
    ASSUME NEW a, Shaped(a), NEW k \in AlertTypes, NEW c \in DOMAIN a.receipts[k], NEW at
    PROVE  LET b == [a EXCEPT !.receipts[k][c].lastSpeeding = at] IN
           /\ Frame(a, b, k) /\ b.events[k] = a.events[k]
           /\ DOMAIN b.receipts[k] = DOMAIN a.receipts[k]
           /\ b.receipts[k][c] = [a.receipts[k][c] EXCEPT !.lastSpeeding = at]
           /\ \A x \in DOMAIN a.receipts[k] : x # c => b.receipts[k][x] = a.receipts[k][x]
  BY DEF Frame, Shaped

\* One event is opened, or moves on while it is open.
EventGoes(old, new, e, at) ==
    /\ DOMAIN new = DOMAIN old \union {e} /\ e \in Times
    /\ \A x \in DOMAIN old : x # e => new[x] = old[x]
    /\ new[e] \in Event
    /\ e \in DOMAIN old =>
         /\ old[e].status = "OPEN"
         /\ old[e].last <= new[e].last /\ new[e].last \in {old[e].last, at}
         /\ new[e].resolved \in {old[e].resolved, at}
         /\ new[e].status = "RESOLVED" => new[e].resolved = at
    /\ e \notin DOMAIN old =>
         /\ e = at /\ new[e].last = at /\ new[e].resolved = 0
         /\ \A x \in DOMAIN old : old[x].status = "RESOLVED"

\* Its receipts follow it, and a new one is of it.
ReceiptsGo(old, new, event, e, at, streak) ==
    /\ DOMAIN old \subseteq DOMAIN new /\ DOMAIN new \subseteq DOMAIN old \union {at}
    /\ \A x \in DOMAIN new : new[x] \in Evidence
    /\ \A x \in DOMAIN old :
         /\ new[x].event = old[x].event /\ new[x].streak = old[x].streak
         /\ \/ new[x].lastSpeeding = old[x].lastSpeeding
            \/ new[x].event = e /\ new[x].lastSpeeding <= event.last
    /\ at \in DOMAIN new /\ at \notin DOMAIN old =>
         /\ new[at].event = e /\ new[at].streak = streak /\ new[at].lastSpeeding <= event.last

\* What an operation at a time may make of the alerts.
Effect(a, b, k, at, streak) ==
    \/ b = a
    \/ /\ Frame(a, b, k)
       /\ \E e \in Times :
            /\ EventGoes(a.events[k], b.events[k], e, at)
            /\ ReceiptsGo(a.receipts[k], b.receipts[k], b.events[k][e], e, at, streak)
            /\ e \notin DOMAIN a.events[k] => at \in DOMAIN b.receipts[k]

\* The event that is open, when there is one.
LEMMA OpenIs ==
    ASSUME NEW a, AlertsTyped(a), NEW k \in AlertTypes, OpenEvents(a, k) # {}
    PROVE  LET e == CHOOSE x \in OpenEvents(a, k) : TRUE IN
           /\ e \in DOMAIN a.events[k] /\ e \in Times /\ a.events[k][e].status = "OPEN"
           /\ a.events[k][e] \in Event
  BY DEF OpenEvents, AlertsTyped

LEMMA TouchEffect ==
    ASSUME NEW a, AlertsTyped(a), NEW k \in AlertTypes, NEW e \in DOMAIN a.events[k],
           a.events[k][e].status = "OPEN", NEW at \in Times, a.events[k][e].last <= at,
           NEW c, NEW streak, Touch(a, k, e, at, c).ok
    PROVE  LET b == Touch(a, k, e, at, c).alerts IN
           /\ Frame(a, b, k)
           /\ EventGoes(a.events[k], b.events[k], e, at)
           /\ ReceiptsGo(a.receipts[k], b.receipts[k], b.events[k][e], e, at, streak)
           /\ DOMAIN b.receipts[k] = DOMAIN a.receipts[k]
           /\ b.events[k][e].last = at
<1> DEFINE m == [a EXCEPT !.events[k][e].last = at]
           b == Touch(a, k, e, at, c).alerts
<1>1. /\ Shaped(a) /\ a.events[k][e] \in Event /\ e \in Times
      /\ \A x \in DOMAIN a.receipts[k] : a.receipts[k][x] \in Evidence
      /\ at \in Nat /\ a.events[k][e].last \in Nat
  BY DEF AlertsTyped, Event, Times
<1>2. /\ Frame(a, m, k) /\ m.receipts[k] = a.receipts[k]
      /\ DOMAIN m.events[k] = DOMAIN a.events[k]
      /\ m.events[k][e] = [a.events[k][e] EXCEPT !.last = at]
      /\ \A x \in DOMAIN a.events[k] : x # e => m.events[k][x] = a.events[k][x]
  BY <1>1, TouchedIs
<1>3. /\ m.events[k][e] \in Event /\ m.events[k][e].last = at
      /\ m.events[k][e].status = "OPEN" /\ m.events[k][e].resolved = a.events[k][e].resolved
  BY <1>1, <1>2 DEF Event
<1>4. EventGoes(a.events[k], m.events[k], e, at)
<2>1. DOMAIN m.events[k] = DOMAIN a.events[k] \union {e}
  BY <1>2
<2> HIDE DEF m
<2> QED
  BY <1>1, <1>2, <1>3, <2>1 DEF EventGoes
<1>5. CASE k = "INACTIVITY"
<2>1. b = m
  BY <1>5 DEF Touch, Done
<2>2. ReceiptsGo(a.receipts[k], m.receipts[k], m.events[k][e], e, at, streak)
<3> HIDE DEF m
<3> QED
  BY <1>1, <1>2 DEF ReceiptsGo
<2> HIDE DEF m, b
<2> QED
  BY <1>2, <1>3, <1>4, <2>1, <2>2 DEF b
<1>6. CASE k # "INACTIVITY"
<2> DEFINE n == [m EXCEPT !.receipts[k][c].lastSpeeding = at]
<2>1. /\ c \in DOMAIN a.receipts[k] /\ a.receipts[k][c].event = e
      /\ a.receipts[k][c].lastSpeeding <= at
      /\ b = n
  BY <1>6 DEF Touch, Done, Thrown
<2>2. Shaped(m)
  BY <1>2 DEF Frame
<2>3. c \in DOMAIN m.receipts[k]
  BY <1>2, <2>1
<2> HIDE DEF m, b
<2>4. /\ Frame(m, n, k) /\ n.events[k] = m.events[k]
      /\ DOMAIN n.receipts[k] = DOMAIN m.receipts[k]
      /\ n.receipts[k][c] = [m.receipts[k][c] EXCEPT !.lastSpeeding = at]
      /\ \A x \in DOMAIN m.receipts[k] : x # c => n.receipts[k][x] = m.receipts[k][x]
  BY <2>2, <2>3, TouchedReceiptIs, SMTT(30)
<2> HIDE DEF n
<2>5. /\ n.receipts[k][c] \in Evidence /\ n.receipts[k][c].lastSpeeding = at
      /\ n.receipts[k][c].event = e /\ n.receipts[k][c].streak = a.receipts[k][c].streak
  BY <1>1, <1>2, <2>1, <2>4 DEF Evidence
<2>6. ReceiptsGo(a.receipts[k], n.receipts[k], n.events[k][e], e, at, streak)
<3>1. n.events[k] = m.events[k] /\ m.receipts[k] = a.receipts[k]
  BY <1>2, <2>4, Zenon
<3>2. DOMAIN n.receipts[k] = DOMAIN a.receipts[k] /\ n.events[k][e].last = at
  BY <1>3, <2>4, <3>1, Zenon
<3>3. \A x \in DOMAIN a.receipts[k] : x # c => n.receipts[k][x] = a.receipts[k][x]
  BY <2>4, <3>1, Zenon
<3>4. at <= n.events[k][e].last
  BY <1>1, <3>2
<3>5. \A x \in DOMAIN n.receipts[k] : n.receipts[k][x] \in Evidence
  BY <1>1, <2>5, <3>2, <3>3
<3>6. ASSUME NEW x \in DOMAIN a.receipts[k]
      PROVE  /\ n.receipts[k][x].event = a.receipts[k][x].event
             /\ n.receipts[k][x].streak = a.receipts[k][x].streak
             /\ \/ n.receipts[k][x].lastSpeeding = a.receipts[k][x].lastSpeeding
                \/ n.receipts[k][x].event = e /\ n.receipts[k][x].lastSpeeding <= n.events[k][e].last
<4>1. CASE x = c
  BY <2>1, <2>5, <3>4, <4>1
<4>2. CASE x # c
  BY <3>3, <4>2
<4> QED
  BY <4>1, <4>2
<3> QED
  BY <1>1, <3>2, <3>5, <3>6 DEF ReceiptsGo
<2>7. Frame(a, n, k)
  BY <1>2, <2>4 DEF Frame
<2> QED
  BY <1>2, <1>3, <1>4, <2>1, <2>4, <2>6, <2>7 DEF b
<1> QED
  BY <1>5, <1>6

LEMMA AtMostItself == ASSUME NEW x \in Nat PROVE x <= x
  OBVIOUS

LEMMA RegisterEffect ==
    ASSUME NEW a, AlertsTyped(a), AlertsAgree(a), NEW k \in AlertTypes, NEW at \in Times,
           NEW streak \in Nat, Register(a, k, at, streak).ok
    PROVE  LET b == Register(a, k, at, streak).alerts IN
           /\ Effect(a, b, k, at, streak)
           /\ at \in DOMAIN b.receipts[k] /\ b.receipts[k][at].streak = streak
<1> DEFINE b == Register(a, k, at, streak).alerts
<1>1. /\ Shaped(a) /\ at \in Nat
      /\ \A x \in DOMAIN a.receipts[k] : a.receipts[k][x] \in Evidence
      /\ \A e \in DOMAIN a.events[k] : a.events[k][e] \in Event
      /\ DOMAIN a.events[k] \subseteq Times
  BY DEF AlertsTyped, Times
<1>2. CASE at \in DOMAIN a.receipts[k]
<2>1. b = a /\ a.receipts[k][at].streak = streak
  BY <1>2 DEF Register, SameEvidence, Done, Thrown
<2> HIDE DEF b
<2> QED
  BY <1>2, <2>1 DEF Effect, b
<1>3. CASE at \notin DOMAIN a.receipts[k] /\ OpenEvents(a, k) = {}
<2> DEFINE event == [status |-> "OPEN", last |-> at, resolved |-> 0]
           m == WithEvent(a, k, at, event)
           n == WithReceipt(m, k, at, Receipt(k, at, streak, at))
<2>1. b = n
  BY <1>3 DEF Register, Done
<2>2. /\ event \in Event /\ event.last = at /\ event.resolved = 0
      /\ Receipt(k, at, streak, at) \in Evidence
      /\ Receipt(k, at, streak, at).event = at /\ Receipt(k, at, streak, at).streak = streak
      /\ Receipt(k, at, streak, at).lastSpeeding = at
  BY DEF Event, Evidence, Receipt
<2>3. Frame(a, m, k) /\ m.events[k] = Put(a.events[k], at, event) /\ m.receipts[k] = a.receipts[k]
  BY <1>1, WithEventIs
<2>4. Shaped(m)
  BY <2>3 DEF Frame
<2> HIDE DEF m, event
<2>5. /\ Frame(m, n, k) /\ n.events[k] = m.events[k]
      /\ n.receipts[k] = Put(m.receipts[k], at, Receipt(k, at, streak, at))
  BY <2>4, WithReceiptIs
<2> HIDE DEF n, b
<2>6. n.events[k] = Put(a.events[k], at, event)
  BY <2>3, <2>5, Zenon
<2>7. n.receipts[k] = Put(a.receipts[k], at, Receipt(k, at, streak, at))
  BY <2>3, <2>5, Zenon
<2>8. /\ DOMAIN n.events[k] = DOMAIN a.events[k] \union {at} /\ n.events[k][at] = event
      /\ \A x \in DOMAIN a.events[k] : x # at => n.events[k][x] = a.events[k][x]
  BY <2>6 DEF Put
<2>9. /\ DOMAIN n.receipts[k] = DOMAIN a.receipts[k] \union {at}
      /\ n.receipts[k][at] = Receipt(k, at, streak, at)
      /\ \A x \in DOMAIN a.receipts[k] : x # at => n.receipts[k][x] = a.receipts[k][x]
  BY <2>7 DEF Put
<2>10. \A e \in DOMAIN a.events[k] : a.events[k][e].status = "RESOLVED"
  BY <1>1, <1>3 DEF OpenEvents, Event
<2>11. at \notin DOMAIN a.events[k]
  BY <1>3 DEF AlertsAgree
<2>12. Frame(a, n, k)
  BY <2>3, <2>5 DEF Frame
<2>13. ReceiptsGo(a.receipts[k], n.receipts[k], n.events[k][at], at, at, streak)
<3>1. /\ n.events[k][at].last = at /\ at <= at
      /\ \A x \in DOMAIN n.receipts[k] : n.receipts[k][x] \in Evidence
  BY <1>1, <2>2, <2>8, <2>9
<3>2. \A x \in DOMAIN a.receipts[k] : n.receipts[k][x] = a.receipts[k][x]
  BY <1>3, <2>9
<3> QED
  BY <1>1, <1>3, <2>2, <2>9, <3>1, <3>2 DEF ReceiptsGo
<2>14. EventGoes(a.events[k], n.events[k], at, at)
  BY <2>2, <2>8, <2>10, <2>11 DEF EventGoes
<2>15. at \in DOMAIN n.receipts[k] /\ n.receipts[k][at].streak = streak
  BY <2>2, <2>9
<2> QED
  BY <2>1, <2>12, <2>13, <2>14, <2>15 DEF Effect, b
<1>4. CASE at \notin DOMAIN a.receipts[k] /\ OpenEvents(a, k) # {}
<2> DEFINE e == CHOOSE x \in OpenEvents(a, k) : TRUE
           j == WithReceipt(a, k, at, Receipt(k, e, streak, at))
<2>1. e \in DOMAIN a.events[k] /\ e \in Times /\ a.events[k][e].status = "OPEN" /\ a.events[k][e] \in Event
  BY <1>4, OpenIs
<2>2. IF at <= a.events[k][e].last THEN b = j
      ELSE Touch(j, k, e, at, at).ok /\ b = Touch(j, k, e, at, at).alerts
  BY <1>4 DEF Register, Done
<2> HIDE DEF b, e
<2>3. /\ Receipt(k, e, streak, at) \in Evidence
      /\ Receipt(k, e, streak, at).event = e /\ Receipt(k, e, streak, at).streak = streak
      /\ Receipt(k, e, streak, at).lastSpeeding = at
  BY <2>1 DEF Evidence, Receipt
<2>4. /\ Frame(a, j, k) /\ j.events[k] = a.events[k]
      /\ j.receipts[k] = Put(a.receipts[k], at, Receipt(k, e, streak, at))
  BY <1>1, WithReceiptIs
<2> HIDE DEF j
<2>5. /\ DOMAIN j.receipts[k] = DOMAIN a.receipts[k] \union {at}
      /\ j.receipts[k][at] = Receipt(k, e, streak, at)
      /\ \A x \in DOMAIN a.receipts[k] : x # at => j.receipts[k][x] = a.receipts[k][x]
  BY <2>4 DEF Put
<2>6. \A x \in DOMAIN a.receipts[k] : j.receipts[k][x] = a.receipts[k][x]
  BY <1>4, <2>5
<2>7. \A x \in DOMAIN j.receipts[k] : j.receipts[k][x] \in Evidence
  BY <1>1, <2>3, <2>5
<2>8. CASE at <= a.events[k][e].last
<3>1. b = j
  BY <2>2, <2>8
<3>2. EventGoes(a.events[k], j.events[k], e, at)
<4>1. a.events[k][e].last \in Nat /\ DOMAIN a.events[k] = DOMAIN a.events[k] \union {e}
  BY <2>1 DEF Event, Times
<4> QED
  BY <2>1, <2>4, <4>1, AtMostItself DEF EventGoes
<3>3. ReceiptsGo(a.receipts[k], j.receipts[k], j.events[k][e], e, at, streak)
  BY <1>4, <2>3, <2>4, <2>5, <2>6, <2>7, <2>8 DEF ReceiptsGo
<3>4. at \in DOMAIN j.receipts[k] /\ j.receipts[k][at].streak = streak
  BY <2>3, <2>5
<3> QED
  BY <2>1, <2>4, <3>1, <3>2, <3>3, <3>4 DEF Effect, b
<2>9. CASE ~(at <= a.events[k][e].last)
<3>1. Touch(j, k, e, at, at).ok /\ b = Touch(j, k, e, at, at).alerts
  BY <2>2, <2>9
<3>2. AlertsTyped(j)
  BY <1>1, <2>4, <2>5, <2>7 DEF AlertsTyped, Frame
<3>3. a.events[k][e].last <= at
  BY <1>1, <2>1, <2>9 DEF Event, Times
<3>4. /\ Frame(j, b, k)
      /\ EventGoes(j.events[k], b.events[k], e, at)
      /\ ReceiptsGo(j.receipts[k], b.receipts[k], b.events[k][e], e, at, streak)
      /\ DOMAIN b.receipts[k] = DOMAIN j.receipts[k]
      /\ b.events[k][e].last = at
  BY <2>1, <2>4, <3>1, <3>2, <3>3, TouchEffect, SMTT(30)
<3>5. Frame(a, b, k)
  BY <2>4, <3>4 DEF Frame
<3>6. EventGoes(a.events[k], b.events[k], e, at)
  BY <2>4, <3>4
<3>7. ReceiptsGo(a.receipts[k], b.receipts[k], b.events[k][e], e, at, streak)
<4>1. /\ b.receipts[k][at].event = e /\ b.receipts[k][at].streak = streak
      /\ b.receipts[k][at].lastSpeeding <= b.events[k][e].last
  BY <1>1, <2>3, <2>5, <3>4 DEF ReceiptsGo
<4>2. ASSUME NEW x \in DOMAIN a.receipts[k]
      PROVE  /\ b.receipts[k][x].event = a.receipts[k][x].event
             /\ b.receipts[k][x].streak = a.receipts[k][x].streak
             /\ \/ b.receipts[k][x].lastSpeeding = a.receipts[k][x].lastSpeeding
                \/ b.receipts[k][x].event = e /\ b.receipts[k][x].lastSpeeding <= b.events[k][e].last
  BY <2>5, <2>6, <3>4 DEF ReceiptsGo
<4>3. \A x \in DOMAIN b.receipts[k] : b.receipts[k][x] \in Evidence
  BY <3>4 DEF ReceiptsGo
<4> QED
  BY <2>5, <3>4, <4>1, <4>2, <4>3 DEF ReceiptsGo
<3>8. at \in DOMAIN b.receipts[k] /\ b.receipts[k][at].streak = streak
  BY <1>4, <2>5, <3>4, <3>7 DEF ReceiptsGo
<3> QED
  BY <2>1, <3>5, <3>6, <3>7, <3>8 DEF Effect, b
<2> QED
  BY <2>8, <2>9
<1> QED
  BY <1>2, <1>3, <1>4

LEMMA UpdateEffect ==
    ASSUME NEW a, AlertsTyped(a), NEW k \in AlertTypes, NEW at \in Times, NEW streak \in Nat,
           NEW c, Update(a, k, at, c).ok
    PROVE  Effect(a, Update(a, k, at, c).alerts, k, at, streak)
<1> DEFINE b == Update(a, k, at, c).alerts
           e == CHOOSE x \in OpenEvents(a, k) : TRUE
<1>1. CASE OpenEvents(a, k) = {} \/ at < a.events[k][e].last \/ at = a.events[k][e].last
<2>1. b = a
  BY <1>1 DEF Update, Done, Thrown
<2> QED
  BY <2>1 DEF Effect
<1>2. CASE ~(OpenEvents(a, k) = {} \/ at < a.events[k][e].last \/ at = a.events[k][e].last)
<2>1. e \in DOMAIN a.events[k] /\ e \in Times /\ a.events[k][e].status = "OPEN" /\ a.events[k][e] \in Event
  BY <1>2, OpenIs
<2>2. Touch(a, k, e, at, c).ok /\ b = Touch(a, k, e, at, c).alerts
  BY <1>2 DEF Update
<2> HIDE DEF b, e
<2>3. a.events[k][e].last <= at
  BY <1>2, <2>1 DEF Event, Times
<2>4. /\ Frame(a, b, k)
      /\ EventGoes(a.events[k], b.events[k], e, at)
      /\ ReceiptsGo(a.receipts[k], b.receipts[k], b.events[k][e], e, at, streak)
  BY <2>1, <2>2, <2>3, TouchEffect
<2> QED
  BY <2>1, <2>4 DEF Effect, b
<1> QED
  BY <1>1, <1>2

LEMMA ResolveEffect ==
    ASSUME NEW a, AlertsTyped(a), NEW k \in AlertTypes, NEW at \in Times, NEW streak \in Nat
    PROVE  Effect(a, Resolve(a, k, at).alerts, k, at, streak)
<1> DEFINE b == Resolve(a, k, at).alerts
           e == CHOOSE x \in OpenEvents(a, k) : TRUE
           event == [status |-> "RESOLVED", last |-> at, resolved |-> at]
<1>1. CASE OpenEvents(a, k) = {} \/ at <= a.events[k][e].last
<2>1. b = a
  BY <1>1 DEF Resolve, Done
<2> QED
  BY <2>1 DEF Effect
<1>2. CASE ~(OpenEvents(a, k) = {} \/ at <= a.events[k][e].last)
<2>1. e \in DOMAIN a.events[k] /\ e \in Times /\ a.events[k][e].status = "OPEN" /\ a.events[k][e] \in Event
  BY <1>2, OpenIs
<2>2. b = WithEvent(a, k, e, event)
  BY <1>2 DEF Resolve, Done
<2>3. event \in Event /\ event.status = "RESOLVED" /\ event.last = at /\ event.resolved = at
  BY DEF Event
<2> HIDE DEF b, e, event
<2>4. Shaped(a) /\ \A x \in DOMAIN a.receipts[k] : a.receipts[k][x] \in Evidence
  BY DEF AlertsTyped
<2>5. Frame(a, b, k) /\ b.events[k] = Put(a.events[k], e, event) /\ b.receipts[k] = a.receipts[k]
  BY <2>2, <2>4, WithEventIs
<2>6. /\ DOMAIN b.events[k] = DOMAIN a.events[k] \union {e} /\ b.events[k][e] = event
      /\ \A x \in DOMAIN a.events[k] : x # e => b.events[k][x] = a.events[k][x]
  BY <2>5 DEF Put
<2>7. a.events[k][e].last <= at
  BY <1>2, <2>1 DEF Event, Times
<2>8. EventGoes(a.events[k], b.events[k], e, at)
  BY <2>1, <2>3, <2>6, <2>7 DEF EventGoes
<2>9. ReceiptsGo(a.receipts[k], b.receipts[k], b.events[k][e], e, at, streak)
  BY <2>4, <2>5 DEF ReceiptsGo
<2> QED
  BY <2>1, <2>5, <2>8, <2>9 DEF Effect, b
<1> QED
  BY <1>1, <1>2

LEMMA ProcessEffect ==
    ASSUME NEW a, AlertsTyped(a), AlertsAgree(a), NEW k \in AlertTypes, NEW at \in Times,
           NEW streak \in Nat, NEW status, NEW c, Process(a, k, status, at, streak, c).ok
    PROVE  LET b == Process(a, k, status, at, streak, c).alerts IN
           /\ Effect(a, b, k, at, streak)
           /\ status = "CONFIRMED" => at \in DOMAIN b.receipts[k] /\ b.receipts[k][at].streak = streak
<1>1. CASE status = "CONFIRMED"
  BY <1>1, RegisterEffect DEF Process
<1>2. CASE status = "ACTIVE"
  BY <1>2, UpdateEffect DEF Process
<1>3. CASE status = "CLEAR"
  BY <1>3, ResolveEffect DEF Process
<1>4. CASE status \notin {"CONFIRMED", "ACTIVE", "CLEAR"}
  BY <1>4 DEF Process, Done, Effect
<1> QED
  BY <1>1, <1>2, <1>3, <1>4
-----------------------------------------------------------------------------
(* What every operation preserves.                                          *)

LEMMA EffectTyped ==
    ASSUME NEW a, AlertsTyped(a), AlertsAgree(a), NEW k \in AlertTypes, NEW at \in Times,
           NEW streak, NEW b, Effect(a, b, k, at, streak)
    PROVE  AlertsTyped(b) /\ AlertsAgree(b)
<1>1. CASE b = a
  BY <1>1
<1>2. CASE b # a
<2>1. PICK e \in Times :
        /\ EventGoes(a.events[k], b.events[k], e, at)
        /\ ReceiptsGo(a.receipts[k], b.receipts[k], b.events[k][e], e, at, streak)
        /\ e \notin DOMAIN a.events[k] => at \in DOMAIN b.receipts[k]
  BY <1>2 DEF Effect
<2>2. Frame(a, b, k)
  BY <1>2 DEF Effect
<2>3. AlertsTyped(b)
<3>1. /\ DOMAIN b.events[k] \subseteq Times /\ DOMAIN b.receipts[k] \subseteq Times
      /\ \A x \in DOMAIN b.events[k] : b.events[k][x] \in Event
      /\ \A x \in DOMAIN b.receipts[k] : b.receipts[k][x] \in Evidence
  BY <2>1 DEF EventGoes, ReceiptsGo, AlertsTyped
<3> QED
  BY <2>2, <3>1 DEF AlertsTyped, Frame
<2>4. DOMAIN b.events[k] \subseteq DOMAIN b.receipts[k]
<3>1. /\ DOMAIN b.events[k] = DOMAIN a.events[k] \union {e}
      /\ DOMAIN a.receipts[k] \subseteq DOMAIN b.receipts[k]
      /\ e \notin DOMAIN a.events[k] => e = at /\ at \in DOMAIN b.receipts[k]
  BY <2>1, Zenon DEF EventGoes, ReceiptsGo
<3>2. DOMAIN a.events[k] \subseteq DOMAIN a.receipts[k]
  BY Zenon DEF AlertsAgree
<3> QED
  BY <3>1, <3>2
<2>5. ASSUME NEW r \in DOMAIN b.receipts[k]
      PROVE  /\ b.receipts[k][r].event \in DOMAIN b.events[k]
             /\ b.receipts[k][r].lastSpeeding <= b.events[k][b.receipts[k][r].event].last
<3>1. CASE r \notin DOMAIN a.receipts[k]
  BY <2>1, <3>1 DEF EventGoes, ReceiptsGo
<3>2. CASE r \in DOMAIN a.receipts[k]
<4> DEFINE d == a.receipts[k][r].event
<4>1. /\ d \in DOMAIN a.events[k] /\ a.receipts[k][r].lastSpeeding <= a.events[k][d].last
      /\ a.receipts[k][r].lastSpeeding \in Nat /\ a.events[k][d].last \in Nat
<5>1. d \in DOMAIN a.events[k] /\ a.receipts[k][r].lastSpeeding <= a.events[k][d].last
  BY <3>2 DEF AlertsAgree
<5>2. a.receipts[k][r] \in Evidence /\ a.events[k][d] \in Event
  BY <3>2, <5>1 DEF AlertsTyped
<5> HIDE DEF d
<5>3. a.receipts[k][r].lastSpeeding \in Times /\ a.events[k][d].last \in Times
  BY <5>2 DEF Evidence, Event
<5> QED
  BY <5>1, <5>3 DEF Times
<4>2. /\ d \in DOMAIN b.events[k] /\ a.events[k][d].last <= b.events[k][d].last
      /\ b.events[k][d].last \in Nat
<5>1. d \in DOMAIN b.events[k]
  BY <2>1, <4>1 DEF EventGoes
<5>2. b.events[k][d].last \in Nat
  BY <2>3, <5>1 DEF AlertsTyped, Event, Times
<5>3. d = e => a.events[k][d].last <= b.events[k][d].last
  BY <2>1, <4>1 DEF EventGoes
<5>4. d # e => a.events[k][d].last <= b.events[k][d].last
<6>1. d # e => b.events[k][d] = a.events[k][d]
  BY <2>1, <4>1 DEF EventGoes
<6> HIDE DEF d
<6> QED
  BY <4>1, <6>1
<5> HIDE DEF d
<5> QED
  BY <5>1, <5>2, <5>3, <5>4
<4>3. /\ b.receipts[k][r].event = d
      /\ \/ b.receipts[k][r].lastSpeeding = a.receipts[k][r].lastSpeeding
         \/ d = e /\ b.receipts[k][r].lastSpeeding <= b.events[k][e].last
  BY <2>1, <3>2 DEF ReceiptsGo
<4> HIDE DEF d
<4> QED
  BY <4>1, <4>2, <4>3
<3> QED
  BY <3>1, <3>2
<2>6. AlertsAgree(b)
  BY <2>2, <2>4, <2>5 DEF AlertsAgree, Frame
<2> QED
  BY <2>3, <2>6
<1> QED
  BY <1>1, <1>2

\* Receipts are only added, and no confirmation changes its streak.
LEMMA EffectReceipts ==
    ASSUME NEW a, NEW k \in AlertTypes, NEW at, NEW streak, NEW b, Effect(a, b, k, at, streak),
           NEW o \in AlertTypes
    PROVE  /\ DOMAIN a.receipts[o] \subseteq DOMAIN b.receipts[o]
           /\ DOMAIN b.receipts[o] \subseteq DOMAIN a.receipts[o] \union {at}
           /\ o # k => b.receipts[o] = a.receipts[o]
           /\ \A r \in DOMAIN a.receipts[o] : b.receipts[o][r].streak = a.receipts[o][r].streak
           /\ at \in DOMAIN b.receipts[k] /\ at \notin DOMAIN a.receipts[k]
                => b.receipts[k][at].streak = streak
<1>1. CASE b = a
  BY <1>1
<1>2. CASE b # a
<2>1. PICK e \in Times : ReceiptsGo(a.receipts[k], b.receipts[k], b.events[k][e], e, at, streak)
  BY <1>2 DEF Effect
<2>2. Frame(a, b, k)
  BY <1>2 DEF Effect
<2>3. CASE o = k
  BY <2>1, <2>3 DEF ReceiptsGo
<2>4. CASE o # k
<3>1. b.receipts[o] = a.receipts[o]
  BY <2>2, <2>4 DEF Frame
<3> QED
  BY <2>1, <2>4, <3>1 DEF ReceiptsGo
<2> QED
  BY <2>3, <2>4
<1> QED
  BY <1>1, <1>2

LEMMA EffectAdvances ==
    ASSUME NEW a, AlertsTyped(a), NEW k \in AlertTypes, NEW at, NEW streak, NEW b,
           Effect(a, b, k, at, streak), NEW o \in AlertTypes, NEW d \in DOMAIN a.events[o]
    PROVE  /\ d \in DOMAIN b.events[o] /\ a.events[o][d].last <= b.events[o][d].last
           /\ a.events[o][d].status = "RESOLVED" => b.events[o][d] = a.events[o][d]
<1>0. a.events[o][d].last \in Nat
  BY DEF AlertsTyped, Event, Times
<1>1. CASE b = a
  BY <1>0, <1>1
<1>2. CASE b # a
<2>1. PICK e \in Times : EventGoes(a.events[k], b.events[k], e, at)
  BY <1>2 DEF Effect
<2>2. Frame(a, b, k)
  BY <1>2 DEF Effect
<2>3. CASE o = k /\ d = e
  BY <2>1, <2>3 DEF EventGoes
<2>4. CASE ~(o = k /\ d = e)
<3>1. d \in DOMAIN b.events[o] /\ b.events[o][d] = a.events[o][d]
  BY <2>1, <2>2, <2>4 DEF EventGoes, Frame
<3> QED
  BY <1>0, <3>1
<2> QED
  BY <2>3, <2>4
<1> QED
  BY <1>1, <1>2

\* An operation at a time after everything before it keeps the episodes apart.
LEMMA EffectInOrder ==
    ASSUME NEW a, AlertsTyped(a), AlertsAgree(a), NEW k \in AlertTypes, NEW at \in Times,
           NEW streak, NEW b, Effect(a, b, k, at, streak), Upto(a, at), Disjoint(a)
    PROVE  Upto(b, at) /\ Disjoint(b)
<1>0. AlertsTyped(b) /\ at \in Nat
  BY EffectTyped DEF Times
<1>1. CASE b = a
  BY <1>1
<1>2. CASE b # a
<2>1. PICK e \in Times : EventGoes(a.events[k], b.events[k], e, at)
  BY <1>2 DEF Effect
<2>2. Frame(a, b, k)
  BY <1>2 DEF Effect
<2>3. \A o \in AlertTypes : \A r \in DOMAIN b.receipts[o] : r <= at
  BY <1>0, EffectReceipts DEF Upto
<2>4. b.events[k][e].last <= at /\ b.events[k][e].resolved <= at /\ e <= at /\ e \in DOMAIN b.events[k]
<3>1. CASE e \in DOMAIN a.events[k]
  BY <1>0, <2>1, <3>1 DEF EventGoes, Upto
<3>2. CASE e \notin DOMAIN a.events[k]
  BY <1>0, <2>1, <3>2 DEF EventGoes
<3> QED
  BY <3>1, <3>2
<2>5. ASSUME NEW o \in AlertTypes, NEW d \in DOMAIN b.events[o], ~(o = k /\ d = e)
      PROVE  d \in DOMAIN a.events[o] /\ b.events[o][d] = a.events[o][d]
<3>1. CASE o = k
  BY <2>1, <2>5, <3>1 DEF EventGoes
<3>2. CASE o # k
<4>1. b.events[o] = a.events[o]
  BY <2>2, <3>2 DEF Frame
<4> QED
  BY <2>5, <4>1
<3> QED
  BY <3>1, <3>2
<2>6. Upto(b, at)
<3>1. ASSUME NEW o \in AlertTypes, NEW d \in DOMAIN b.events[o]
      PROVE  d <= at /\ b.events[o][d].last <= at /\ b.events[o][d].resolved <= at
  BY <2>4, <2>5, <3>1 DEF Upto
<3> QED
  BY <2>3, <3>1 DEF Upto
<2>7. ASSUME NEW o \in AlertTypes, NEW c \in DOMAIN b.events[o], NEW d \in DOMAIN b.events[o], c < d
      PROVE  b.events[o][c].status = "RESOLVED" /\ b.events[o][c].resolved <= d
<3>0. c \in Nat /\ d \in Nat /\ e \in Nat /\ d <= at
  BY <1>0, <2>6, <2>7 DEF AlertsTyped, Times, Upto
<3>1. CASE ~(o = k /\ c = e) /\ ~(o = k /\ d = e)
  BY <2>5, <2>7, <3>1 DEF Disjoint
\* The event that moved is open: no event is after it.
<3>2. CASE o = k /\ c = e
<4>1. d \in DOMAIN a.events[k] /\ ~(d = e)
  BY <2>5, <2>7, <3>0, <3>2
<4>2. d <= at
  BY <3>0
<4>3. e \in DOMAIN a.events[k]
  BY <2>1, <2>7, <3>0, <3>2 DEF EventGoes
<4>4. a.events[k][e].status = "OPEN"
  BY <2>1, <4>3 DEF EventGoes
<4>5. a.events[k][e].status = "RESOLVED"
  BY <2>7, <3>2, <4>1, <4>3 DEF Disjoint
<4> QED
  BY <4>4, <4>5
\* The event that was opened is after all others, and they are resolved.
<3>3. CASE o = k /\ d = e /\ c # e
<4>1. c \in DOMAIN a.events[k] /\ b.events[k][c] = a.events[k][c]
  BY <2>5, <3>3
<4>2. CASE e \in DOMAIN a.events[k]
  BY <2>7, <3>3, <4>1, <4>2 DEF Disjoint
<4>3. CASE e \notin DOMAIN a.events[k]
<5>1. a.events[k][c].status = "RESOLVED" /\ e = at
  BY <2>1, <4>1, <4>3 DEF EventGoes
<5>2. a.events[k][c].resolved <= at
  BY <4>1 DEF Upto
<5> QED
  BY <3>3, <4>1, <5>1, <5>2
<4> QED
  BY <4>2, <4>3
<3> QED
  BY <3>1, <3>2, <3>3
<2>8. Disjoint(b)
  BY <2>7 DEF Disjoint
<2> QED
  BY <2>6, <2>8
<1> QED
  BY <1>1, <1>2
-----------------------------------------------------------------------------
(* The oldest and the newest of a set of times.                             *)

LEMMA TimesAreNat == \A t \in Times : t \in Nat
  BY DEF Times

LEMMA MinimalTime ==
    ASSUME NEW S, S \subseteq Nat, S # {}
    PROVE  \E m \in S : \A n \in S : ~(<<n, m>> \in OpToRel(<, Nat))
  BY WFMin, NatLessThanWellFounded, Zenon

LEMMA LeastTime ==
    ASSUME NEW S, S \subseteq Nat, S # {}
    PROVE  \E m \in S : \A n \in S : m <= n
<1>1. \A x, y \in Nat : x < y => <<x, y>> \in OpToRel(<, Nat)
  BY DEF OpToRel
<1>2. PICK m \in S : \A n \in S : ~(<<n, m>> \in OpToRel(<, Nat))
  BY MinimalTime, Zenon
<1>3. \A n \in S : ~(n < m)
  BY <1>1, <1>2, Zenon
<1> QED
  BY <1>3

LEMMA GreatestTime ==
    ASSUME NEW S, S \subseteq Times, S # {}
    PROVE  \E m \in S : \A n \in S : n <= m
<1> DEFINE T == {MaxTime - n : n \in S}
<1>1. MaxTime \in Nat /\ \A n \in S : n \in Nat /\ MaxTime - n \in Nat
  BY IngestionAssumption DEF Times
<1>2. T \subseteq Nat /\ T # {}
  BY <1>1
<1>3. PICK t \in T : \A u \in T : t <= u
  BY <1>2, LeastTime, Zenon
<1>4. PICK m \in S : t = MaxTime - m
  OBVIOUS
<1>5. ASSUME NEW n \in S PROVE n <= m
<2>1. MaxTime - m <= MaxTime - n
  BY <1>3, <1>4
<2> HIDE DEF T
<2> QED
  BY <1>1, <1>4, <2>1
<1> QED
  BY <1>5

LEMMA MinIs ==
    ASSUME NEW S, S \subseteq Times, S # {}
    PROVE  Min(S) \in S /\ \A n \in S : Min(S) <= n
<1>1. S \subseteq Nat
  BY DEF Times
<1>2. \E m \in S : \A n \in S : m <= n
  BY <1>1, LeastTime
<1> QED
  BY <1>2, Zenon DEF Min

LEMMA MaxIs ==
    ASSUME NEW S, S \subseteq Times, S # {}
    PROVE  Max(S) \in S /\ \A n \in S : n <= Max(S)
<1>1. \A x, y \in Nat : x <= y <=> y >= x
  OBVIOUS
<1>2. \A x \in S : x \in Nat
  BY DEF Times
<1>3. PICK m \in S : \A n \in S : n <= m
  BY GreatestTime
<1>4. \E x \in S : \A y \in S : x >= y
  BY <1>1, <1>2, <1>3
<1>5. Max(S) \in S /\ \A y \in S : Max(S) >= y
  BY <1>4, Zenon DEF Max
<1> QED
  BY <1>1, <1>2, <1>5

LEMMA LatestIs ==
    ASSUME NEW S, S \subseteq Times
    PROVE  /\ Latest(S) \in Nat /\ \A n \in S : n <= Latest(S)
           /\ S # {} => Latest(S) \in S
           /\ S = {} => Latest(S) = 0
<1>1. CASE S = {}
<2>1. Latest(S) = 0
  BY <1>1 DEF Latest
<2> QED
  BY <1>1, <2>1
<1>2. CASE S # {}
<2>1. Latest(S) = Max(S)
  BY <1>2 DEF Latest
<2>2. Max(S) \in S /\ \A n \in S : n <= Max(S)
  BY <1>2, MaxIs
<2>3. \A n \in S : n \in Nat
  BY DEF Times
<2> QED
  BY <1>2, <2>1, <2>2, <2>3
<1> QED
  BY <1>1, <1>2

LEMMA LatestOf ==
    ASSUME NEW S, S \subseteq Times, NEW c \in S, \A n \in S : n <= c
    PROVE  Latest(S) = c
<1>1. Latest(S) \in S /\ c <= Latest(S)
  BY LatestIs
<1>2. \A n \in S : n \in Nat
  BY DEF Times
<1> QED
  BY <1>1, <1>2

LEMMA LatestGrows ==
    ASSUME NEW S, S \subseteq Times, NEW c \in Times, c > Latest(S)
    PROVE  Latest(S \union {c}) = c /\ c \notin S
<1>1. \A n \in S : n <= Latest(S) /\ n \in Nat
  BY LatestIs DEF Times
<1>2. c \in Nat /\ Latest(S) \in Nat
  BY LatestIs DEF Times
<1>3. \A n \in S \union {c} : n <= c
  BY <1>1, <1>2
<1>4. S \union {c} \subseteq Times /\ c \in S \union {c}
  OBVIOUS
<1>5. Latest(S \union {c}) = c
  BY <1>3, <1>4, LatestOf
<1> QED
  BY <1>1, <1>2, <1>5
-----------------------------------------------------------------------------
(* The speeding rule.                                                       *)

LEMMA Threshold ==
    ASSUME NEW s \in Policies, NEW pos, s.fence
    PROVE  /\ Context(s, pos).threshold \in Nat
           /\ Context(Fingerprint(s), pos) = Context(s, pos)
<1>1. Zone(s, pos) \in {"CITY", "OUTSIDE_CITY"}
  BY DEF Zone
<1>2. s.limit[Zone(s, pos)] \in Nat
  BY <1>1, IngestionAssumption
<1>3. Context(s, pos).threshold \in Nat
  BY <1>2 DEF Context
<1>4. Zone(Fingerprint(s), pos) = Zone(s, pos)
  BY DEF Zone, Fingerprint
<1>5. Context(Fingerprint(s), pos) = Context(s, pos)
  BY <1>4 DEF Context, Fingerprint
<1> QED
  BY <1>3, <1>5

\* A state without a streak is true of whatever rows it stands after.
LEMMA BlankTrue ==
    ASSUME NEW st, NEW rows, NEW j, st.last = Latest(rows), st.count = 0, st.streak = 0,
           st.confirmed = FALSE
    PROVE  TrueOf(st, rows, j)
<1>1. st.count \in Nat /\ st.streak \in Nat /\ ~(st.count > 0)
  OBVIOUS
<1>2. st.confirmed \in BOOLEAN /\ ~st.confirmed
  BY Zenon
<1> QED
  BY <1>1, <1>2 DEF TrueOf

\* A row behind the frontier changes nothing.
LEMMA LateIgnored ==
    ASSUME NEW st, NEW c, NEW s, c <= st.last
    PROVE  LET d == DetectSpeeding(st, Observation(c), s) IN d.state = st /\ d.status = "IGNORED"
  BY DEF DetectSpeeding, Observation, Outcome

\* What a sample above the limit makes of a streak.
Counts(st, c, s, d) ==
    LET fp == Fingerprint(s)
        ctx == Context(s, journal[c].pos)
        continuing == Continues(st, ctx, fp) IN
    /\ s.fence /\ s.speedOn /\ journal[c].kph > ctx.threshold
    /\ d.state.last = c /\ d.state.fp = fp /\ d.state.ctx = ctx
    /\ d.state.count = IF continuing THEN st.count + 1 ELSE 1
    /\ d.state.streak = IF continuing /\ st.streak # 0 THEN st.streak ELSE c
    /\ \/ /\ d.status = "CONFIRMED" /\ d.state.confirmed = TRUE /\ d.state.confirmedAt = c
          /\ d.state.count >= s.confirm
       \/ /\ d.status # "CONFIRMED" /\ continuing /\ st.confirmed
          /\ d.state.confirmed = TRUE /\ d.state.confirmedAt = st.confirmedAt
       \/ d.status # "CONFIRMED" /\ d.state.confirmed = FALSE

Forgets(st, c, d) ==
    /\ d.status # "CONFIRMED"
    /\ d.state.last = c /\ d.state.count = 0 /\ d.state.streak = 0 /\ d.state.confirmed = FALSE

LEMMA DetectIs ==
    ASSUME NEW st, NEW c, NEW s \in Policies, ~(c <= st.last), journal[c].kph \in Nat
    PROVE  LET d == DetectSpeeding(st, Observation(c), s) IN Counts(st, c, s, d) \/ Forgets(st, c, d)
<1> DEFINE obs == Observation(c)
           fp == Fingerprint(s)
           ctx == Context(s, journal[c].pos)
           continuing == Continues(st, ctx, fp)
           d == DetectSpeeding(st, obs, s)
<1>1. obs.at = c /\ obs.kph = journal[c].kph /\ obs.pos = journal[c].pos
  BY DEF Observation
<1>2. CASE ~s.speedOn \/ Zone(s, obs.pos) = "UNKNOWN"
  BY <1>1, <1>2 DEF DetectSpeeding, Outcome, Skipped, Blank, Forgets
<1>3. CASE ~(~s.speedOn \/ Zone(s, obs.pos) = "UNKNOWN") /\ obs.kph <= ctx.threshold
  BY <1>1, <1>3 DEF DetectSpeeding, Outcome, Blank, Forgets
<1>4. CASE ~(~s.speedOn \/ Zone(s, obs.pos) = "UNKNOWN") /\ ~(obs.kph <= ctx.threshold)
<2>1. s.fence /\ s.speedOn
  BY <1>4 DEF Zone
<2>2. journal[c].kph > ctx.threshold
  BY <1>1, <1>4, <2>1, Threshold
<2> DEFINE count == IF continuing THEN st.count + 1 ELSE 1
           was == continuing /\ st.confirmed
           newly == ~was /\ count >= s.confirm
           streak == IF continuing /\ st.streak # 0 THEN st.streak ELSE c
           confirmedAt == CASE newly -> c [] was -> st.confirmedAt [] OTHER -> 0
<2>3. /\ d.state = [last |-> c, fp |-> fp, count |-> count, confirmed |-> was \/ newly, ctx |-> ctx,
                    streak |-> streak, confirmedAt |-> confirmedAt]
      /\ d.status = IF newly THEN "CONFIRMED" ELSE IF was THEN "ACTIVE" ELSE "PENDING"
  BY <1>1, <1>4 DEF DetectSpeeding, Outcome
<2> HIDE DEF d
<2>4. /\ d.state.last = c /\ d.state.fp = fp /\ d.state.ctx = ctx /\ d.state.count = count
      /\ d.state.streak = streak /\ d.state.confirmed = (was \/ newly)
      /\ d.state.confirmedAt = confirmedAt
  BY <2>3
<2>5. CASE newly
  BY <2>1, <2>2, <2>3, <2>4, <2>5 DEF Counts, d
<2>6. CASE ~newly /\ was
  BY <2>1, <2>2, <2>3, <2>4, <2>6 DEF Counts, d
<2>7. CASE ~newly /\ ~was
  BY <2>1, <2>2, <2>3, <2>4, <2>7 DEF Counts, d
<2> QED
  BY <2>5, <2>6, <2>7
<1> QED
  BY <1>2, <1>3, <1>4

LEMMA StreakFinite ==
    ASSUME NEW rows, rows \subseteq Times, NEW from
    PROVE  IsFiniteSet({t \in rows : t >= from})
<1>1. IsFiniteSet(1..MaxTime)
  BY FS_Interval, IngestionAssumption
<1>2. {t \in rows : t >= from} \in SUBSET (1..MaxTime)
  BY DEF Times
<1> QED
  BY <1>1, <1>2, FS_Subset

\* The next sample above the limit continues the streak, or begins one.
LEMMA CountsTrue ==
    ASSUME NEW st, NEW rows, rows \subseteq Times, TrueOf(st, rows, journal), NEW c \in Times, c > Latest(rows),
           NEW s \in Policies, NEW d, Counts(st, c, s, d)
    PROVE  TrueOf(d.state, rows \union {c}, journal) /\ d.state.count > 0
<1> DEFINE fp == Fingerprint(s)
           ctx == Context(s, journal[c].pos)
           continuing == Continues(st, ctx, fp)
           all == rows \union {c}
           streak == {t \in all : t >= d.state.streak}
<1>1. /\ s.fence /\ journal[c].kph > ctx.threshold
      /\ d.state.last = c /\ d.state.fp = fp /\ d.state.ctx = ctx
      /\ d.state.count = IF continuing THEN st.count + 1 ELSE 1
      /\ d.state.streak = IF continuing /\ st.streak # 0 THEN st.streak ELSE c
  BY DEF Counts
<1>2. d.state.confirmed \in BOOLEAN
  BY Zenon DEF Counts
<1>3. st.count \in Nat /\ st.streak \in Nat /\ (st.streak = 0 <=> st.count = 0)
  BY DEF TrueOf
<1>4. Latest(all) = c /\ c \notin rows /\ c \in Nat /\ \A t \in rows : t \in Nat /\ t < c
<2>1. Latest(all) = c /\ c \notin rows
  BY LatestGrows
<2>2. \A t \in rows : t \in Nat /\ t <= Latest(rows)
  BY LatestIs DEF Times
<2>3. Latest(rows) \in Nat /\ c \in Nat
  BY LatestIs DEF Times
<2> QED
  BY <2>1, <2>2, <2>3
<1>5. Context(d.state.fp, journal[c].pos) = d.state.ctx /\ journal[c].kph > d.state.ctx.threshold
  BY <1>1, Threshold
<1> HIDE DEF fp, ctx, continuing, all
<1>6. /\ d.state.streak \in all /\ d.state.count = Cardinality(streak)
      /\ d.state.streak \in Nat \ {0} /\ d.state.count \in Nat \ {0}
      /\ \A t \in streak : /\ Context(d.state.fp, journal[t].pos) = d.state.ctx
                           /\ journal[t].kph > d.state.ctx.threshold
<2>1. CASE continuing /\ st.streak # 0
<3> DEFINE before == {t \in rows : t >= st.streak}
<3>1. /\ st.streak \in rows /\ st.count = Cardinality(before)
      /\ \A t \in before : /\ Context(st.fp, journal[t].pos) = st.ctx
                           /\ journal[t].kph > st.ctx.threshold
  BY <1>3, <2>1 DEF TrueOf
<3>2. st.fp = d.state.fp /\ st.ctx = d.state.ctx
  BY <1>1, <2>1 DEF Continues, continuing
<3>3. streak = before \union {c} /\ c \notin before
<4>1. d.state.streak = st.streak
  BY <1>1, <2>1
<4>2. st.streak \in rows /\ c \in Nat
  BY <1>4, <3>1
<4>3. st.streak \in Nat /\ st.streak < c
  BY <1>4, <4>2
<4>4. c >= st.streak
  BY <4>2, <4>3
<4>5. streak = {t \in all : t >= st.streak}
  BY <4>1
<4> QED
  BY <1>4, <4>4, <4>5 DEF all
<3>4. IsFiniteSet(before)
  BY StreakFinite
<3> HIDE DEF before, streak
<3>5. Cardinality(streak) = Cardinality(before) + 1
  BY <3>3, <3>4, FS_AddElement
<3>6. d.state.count = Cardinality(streak) /\ d.state.count \in Nat \ {0}
  BY <1>1, <1>3, <2>1, <3>1, <3>5
<3>7. d.state.streak \in all /\ d.state.streak \in Nat \ {0}
  BY <1>1, <1>3, <2>1, <3>1 DEF all
<3> QED
  BY <1>5, <3>1, <3>2, <3>3, <3>6, <3>7
<2>2. CASE ~(continuing /\ st.streak # 0)
<3>1. d.state.streak = c /\ d.state.count = 1
  BY <1>1, <1>3, <2>2
<3>2. streak = {c}
  BY <1>4, <3>1 DEF all
<3>3. Cardinality({c}) = 1
  BY FS_Singleton
<3>4. c \in all /\ c \in Nat \ {0}
  BY DEF all, Times
<3> HIDE DEF streak
<3> QED
  BY <1>5, <3>1, <3>2, <3>3, <3>4
<2> QED
  BY <2>1, <2>2
<1>7. d.state.count > 0 /\ ~(d.state.streak = 0) /\ ~(d.state.count = 0)
  BY <1>6
<1>8. d.state.last = Latest(all)
  BY <1>1, <1>4
<1> QED
  BY <1>2, <1>6, <1>7, <1>8 DEF TrueOf, all

LEMMA ForgetsTrue ==
    ASSUME NEW st, NEW rows, rows \subseteq Times, NEW c \in Times, c > Latest(rows),
           NEW d, Forgets(st, c, d)
    PROVE  TrueOf(d.state, rows \union {c}, journal)
<1>1. d.state.last = Latest(rows \union {c})
  BY LatestGrows DEF Forgets
<1>2. d.state.count = 0 /\ d.state.streak = 0 /\ d.state.confirmed = FALSE
  BY DEF Forgets
<1> QED
  BY <1>1, <1>2, BlankTrue

\* A notified detector keeps its frontier alone.
LEMMA InvalidatedTrue ==
    ASSUME NEW st, NEW rows, TrueOf(st, rows, journal)
    PROVE  TrueOf(Invalidated(st), rows, journal) /\ ~Invalidated(st).confirmed
<1> DEFINE new == Invalidated(st)
<1>1. new.last = st.last /\ new.count = 0 /\ new.streak = 0 /\ new.confirmed = FALSE
  BY DEF Invalidated, Blank
<1>2. st.last = Latest(rows)
  BY DEF TrueOf
<1> HIDE DEF new
<1>3. TrueOf(new, rows, journal) /\ ~new.confirmed
  BY <1>1, <1>2, BlankTrue
<1> QED
  BY <1>3 DEF new
-----------------------------------------------------------------------------
(* What the alerts tell of, and what only a confirmation adds.              *)

LEMMA EffectOf ==
    ASSUME NEW a, NEW k \in AlertTypes, NEW rows, NEW at \in rows, NEW streak, NEW b,
           Shaped(a), AlertsOf(a, rows), Effect(a, b, k, at, streak)
    PROVE  AlertsOf(b, rows)
<1>1. CASE b = a
  BY <1>1
<1>2. CASE b # a
<2>1. PICK e \in Times : EventGoes(a.events[k], b.events[k], e, at)
  BY <1>2 DEF Effect
<2>2. Frame(a, b, k)
  BY <1>2 DEF Effect
<2>3. ASSUME NEW o \in AlertTypes PROVE DOMAIN b.receipts[o] \subseteq rows
  BY EffectReceipts DEF AlertsOf
<2>4. ASSUME NEW d \in DOMAIN b.events[k]
      PROVE  b.events[k][d].last \in rows /\ b.events[k][d].resolved \in rows \union {0}
<3>1. CASE d # e
  BY <2>1, <3>1 DEF EventGoes, AlertsOf
<3>2. CASE d = e /\ e \in DOMAIN a.events[k]
  BY <2>1, <3>2 DEF EventGoes, AlertsOf
<3>3. CASE d = e /\ e \notin DOMAIN a.events[k]
  BY <2>1, <3>3 DEF EventGoes
<3> QED
  BY <3>1, <3>2, <3>3
<2>5. ASSUME NEW o \in AlertTypes, o # k, NEW d \in DOMAIN b.events[o]
      PROVE  b.events[o][d].last \in rows /\ b.events[o][d].resolved \in rows \union {0}
<3>1. b.events[o] = a.events[o]
  BY <2>2, <2>5 DEF Frame
<3> QED
  BY <3>1 DEF AlertsOf
<2> QED
  BY <2>3, <2>4, <2>5 DEF AlertsOf
<1> QED
  BY <1>1, <1>2

LEMMA OnlyConfirms ==
    ASSUME NEW a, AlertsTyped(a), NEW k \in AlertTypes, NEW at \in Times, NEW streak \in Nat,
           NEW status, NEW c, status # "CONFIRMED", Process(a, k, status, at, streak, c).ok
    PROVE  DOMAIN Process(a, k, status, at, streak, c).alerts.receipts[k] = DOMAIN a.receipts[k]
<1> DEFINE e == CHOOSE x \in OpenEvents(a, k) : TRUE
<1>1. CASE status = "ACTIVE"
<2>1. Process(a, k, status, at, streak, c) = Update(a, k, at, c)
  BY <1>1 DEF Process
<2>2. CASE OpenEvents(a, k) = {} \/ at < a.events[k][e].last \/ at = a.events[k][e].last
  BY <2>1, <2>2 DEF Update, Done, Thrown
<2>3. CASE ~(OpenEvents(a, k) = {} \/ at < a.events[k][e].last \/ at = a.events[k][e].last)
<3>1. e \in DOMAIN a.events[k] /\ a.events[k][e].status = "OPEN" /\ a.events[k][e] \in Event
  BY <2>3, OpenIs
<3>2. Update(a, k, at, c) = Touch(a, k, e, at, c)
  BY <2>3 DEF Update
<3> HIDE DEF e
<3>3. a.events[k][e].last <= at
  BY <2>3, <3>1 DEF Event, Times
<3> QED
  BY <2>1, <3>1, <3>2, <3>3, TouchEffect
<2> QED
  BY <2>2, <2>3
<1>2. CASE status = "CLEAR"
<2> DEFINE event == [status |-> "RESOLVED", last |-> at, resolved |-> at]
<2>1. Process(a, k, status, at, streak, c) = Resolve(a, k, at)
  BY <1>2 DEF Process
<2>2. Resolve(a, k, at).alerts \in {a, WithEvent(a, k, e, event)}
  BY DEF Resolve, Done
<2>3. Shaped(a)
  BY DEF AlertsTyped
<2> QED
  BY <2>1, <2>2, <2>3, WithEventIs
<1>3. CASE status \notin {"ACTIVE", "CLEAR"}
  BY <1>3 DEF Process, Done
<1> QED
  BY <1>1, <1>2, <1>3
-----------------------------------------------------------------------------
(* The rows of the journal.                                                 *)

LEMMA SameRows ==
    ASSUME UNCHANGED journal
    PROVE  /\ Journaled' = Journaled /\ Pending' = Pending /\ Eligible' = Eligible
           /\ LatestEligible' = LatestEligible
  BY DEF Journaled, Pending, Eligible, LatestEligible

LEMMA RowSets ==
    ASSUME RowsTyped
    PROVE  /\ Pending \subseteq Times /\ Eligible \subseteq Times /\ Pending \intersect Eligible = {}
           /\ LatestEligible = Latest(Eligible) /\ LatestEligible \in Nat
<1>1. Pending \subseteq Times /\ Eligible \subseteq Times /\ Pending \intersect Eligible = {}
  BY DEF RowsTyped, Pending, Eligible
<1>2. LatestEligible = Latest(Eligible)
  BY DEF LatestEligible, Latest
<1> QED
  BY <1>1, <1>2, LatestIs

\* The row in progress is the oldest pending one up to the target.
LEMMA CurrentIs ==
    ASSUME RowsTyped, TaskKnows, task.pc \notin {"idle", "drain"}
    PROVE  /\ Current \in Pending /\ Current <= task.target /\ Current \in Times
           /\ task.target \in Pending /\ task.rows = {t \in Pending : t <= task.target}
           /\ Current \in task.rows
           /\ \A u \in Pending : Current <= u
<1>1. task.rows = {t \in Pending : t <= task.target} /\ task.target \in Pending
  BY DEF TaskKnows
<1>2. Pending \subseteq Times /\ \A t \in Pending : t \in Nat
  BY RowSets DEF Times
<1>3. task.target \in task.rows /\ task.rows \subseteq Times
  BY <1>1, <1>2
<1>4. Current \in task.rows /\ \A n \in task.rows : Current <= n
  BY <1>3, MinIs DEF Current
<1>5. Current \in Pending /\ Current <= task.target
  BY <1>1, <1>4
<1>6. ASSUME NEW u \in Pending PROVE Current <= u
<2>1. CASE u <= task.target
  BY <1>1, <1>4, <2>1
<2>2. CASE ~(u <= task.target)
<3>1. u \in Nat /\ task.target \in Nat /\ Current \in Nat
  BY <1>1, <1>2, <1>5
<3> QED
  BY <1>5, <2>2, <3>1
<2> QED
  BY <2>1, <2>2
<1> QED
  BY <1>1, <1>2, <1>4, <1>5, <1>6

\* What a new row changes.
LEMMA NewRow ==
    ASSUME RowsTyped, NEW t \in Times, t \notin Journaled, NEW p, journal' = Put(journal, t, Row(p))
    PROVE  /\ Journaled' = Journaled \union {t} /\ Pending' = Pending \union {t}
           /\ Eligible' = Eligible /\ LatestEligible' = LatestEligible
           /\ journal'[t] = Row(p)
           /\ \A u \in Journaled : journal'[u] = journal[u]
<1>1. /\ Journaled' = Journaled \union {t} /\ journal'[t] = Row(p)
      /\ \A u \in Journaled : journal'[u] = journal[u]
  BY DEF Journaled, Put
<1>2. Row(p).processed = FALSE
  BY DEF Row
<1>3. Pending' = Pending \union {t}
  BY <1>1, <1>2 DEF Pending
<1>4. Eligible' = Eligible
  BY <1>1, <1>2 DEF Eligible
<1>5. LatestEligible' = LatestEligible
  BY <1>4 DEF LatestEligible
<1> QED
  BY <1>1, <1>3, <1>4, <1>5

\* What completing a row changes.
LEMMA RowDone ==
    ASSUME RowsTyped, NEW t \in Pending, NEW eligible \in BOOLEAN,
           journal' = [journal EXCEPT ![t].processed = TRUE, ![t].eligible = eligible]
    PROVE  /\ Journaled' = Journaled /\ Pending' = Pending \ {t}
           /\ Eligible' = IF eligible THEN Eligible \union {t} ELSE Eligible
           /\ journal'[t] \in Sample
           /\ journal'[t].processed = TRUE /\ journal'[t].eligible = eligible
           /\ journal'[t].kph = journal[t].kph /\ journal'[t].pos = journal[t].pos
           /\ \A u \in Journaled : u # t => journal'[u] = journal[u]
<1>1. t \in Journaled /\ journal[t] \in Sample /\ ~journal[t].processed
  BY DEF RowsTyped, Pending
<1>2. Journaled' = Journaled /\ \A u \in Journaled : u # t => journal'[u] = journal[u]
  BY <1>1 DEF Journaled
<1>3. /\ journal'[t] \in Sample
      /\ journal'[t].processed = TRUE /\ journal'[t].eligible = eligible
      /\ journal'[t].kph = journal[t].kph /\ journal'[t].pos = journal[t].pos
  BY <1>1 DEF Sample, Journaled
<1>4. Pending' = Pending \ {t}
  BY <1>1, <1>2, <1>3 DEF Pending
<1>5. Eligible' = IF eligible THEN Eligible \union {t} ELSE Eligible
  BY <1>1, <1>2, <1>3 DEF Eligible
<1> QED
  BY <1>2, <1>3, <1>4, <1>5

\* The payload of a row never changes, nor does what is true of it.
LEMMA TrueKept ==
    ASSUME NEW st, NEW rows, NEW i, NEW j, TrueOf(st, rows, i),
           \A t \in rows : j[t].kph = i[t].kph /\ j[t].pos = i[t].pos
    PROVE  TrueOf(st, rows, j)
<1> DEFINE streak == {t \in rows : t >= st.streak}
<1>1. \A t \in streak : j[t].kph = i[t].kph /\ j[t].pos = i[t].pos
  OBVIOUS
<1>2. st.count > 0 => \A t \in streak : /\ Context(st.fp, j[t].pos) = st.ctx
                                        /\ j[t].kph > st.ctx.threshold
  BY <1>1 DEF TrueOf
<1> QED
  BY <1>2 DEF TrueOf
-----------------------------------------------------------------------------
(* What most steps leave as it was.                                         *)

\* The policies of an environment, its order and its payloads never change.
Steady == Chosen' = Chosen /\ env'.late = env.late /\ env'.payloads = env.payloads

LEMMA WorldStep ==
    ASSUME WorldTyped, [Next]_vars
    PROVE  WorldTyped' /\ Steady
<1>0. env \in Environment /\ settings \in Chosen /\ changed \subseteq {"speeding", "inactivity"}
  BY DEF WorldTyped
<1>1. CASE UNCHANGED <<env, settings>> /\ changed' \in {changed, {}}
  BY <1>0, <1>1 DEF WorldTyped, Steady, Chosen
<1>2. CASE UNCHANGED settings /\ changed' \in {changed, {}} /\ env.faults > 0
           /\ env' = [env EXCEPT !.faults = @ - 1]
<2>1. env' \in Environment
  BY <1>0, <1>2 DEF Environment
<2>2. Steady
  BY <1>0, <1>2 DEF Steady, Chosen, Environment
<2> QED
  BY <1>0, <1>2, <2>1, <2>2 DEF WorldTyped, Steady
<1>3. ASSUME NEW s \in Policies, CommitSettings(s)
      PROVE  WorldTyped' /\ Steady
<2>1. env' \in Environment
  BY <1>0, <1>3 DEF Environment, CommitSettings
<2>2. Steady
  BY <1>0, <1>3 DEF Steady, Chosen, Environment, CommitSettings
<2>3. s \in Chosen /\ settings' = s
  BY <1>3 DEF CommitSettings, Chosen
<2>4. changed' \subseteq {"speeding", "inactivity"}
  BY <1>0, <1>3 DEF CommitSettings, Kinds
<2> QED
  BY <2>1, <2>2, <2>3, <2>4 DEF WorldTyped, Steady
<1>4. [Next]_vars => \/ UNCHANGED <<env, settings>> /\ changed' \in {changed, {}}
                     \/ /\ UNCHANGED settings /\ changed' \in {changed, {}} /\ env.faults > 0
                        /\ env' = [env EXCEPT !.faults = @ - 1]
                     \/ \E s \in Policies : CommitSettings(s)
<2>1. CASE Handler
  BY <2>1 DEF Handler, Drain, Bootstrap, Restore, Prime, EvaluateSpeeding, EvaluateInactivity,
              WriteSpeeding, WriteInactivity, Complete
<2>2. CASE \E t \in Times : Redeliver(t) \/ \E p \in env.payloads : Deliver(t, p)
  BY <2>2 DEF Redeliver, Deliver
<2>3. CASE Fail \/ LoseInsertAnswer \/ Restart
  BY <2>3 DEF Fail, LoseInsertAnswer, Restart
<2>4. CASE NotifySettings \/ UNCHANGED vars
  BY <2>4 DEF NotifySettings, vars
<2> QED
  BY <2>1, <2>2, <2>3, <2>4 DEF Next
<1> QED
  BY <1>1, <1>2, <1>3, <1>4

\* A step that leaves the durable state alone.
LEMMA DurableKept ==
    ASSUME IInv, UNCHANGED durable, Steady
    PROVE  /\ RowsTyped' /\ AlertsTyped(alerts)' /\ AlertsOf(alerts, Journaled)'
           /\ AlertsAgree(alerts)' /\ CheckpointKnows'
           /\ ~env'.late => ~env.late /\ RowsInOrder'
<1>1. UNCHANGED <<journal, checkpoint, alerts>> /\ env'.late = env.late /\ Chosen' = Chosen
      /\ env'.payloads = env.payloads
  BY DEF durable, Steady
<1>2. Journaled' = Journaled /\ Pending' = Pending /\ Eligible' = Eligible
  BY <1>1, SameRows
<1>3. RowsTyped'
  BY <1>1, <1>2 DEF IInv, Types, RowsTyped
<1>4. AlertsTyped(alerts)' /\ AlertsOf(alerts, Journaled)' /\ AlertsAgree(alerts)'
  BY <1>1, <1>2, Zenon DEF IInv, Types
<1>5. CheckpointKnows'
  BY <1>1, <1>2, Zenon DEF IInv, CheckpointKnows
<1>6. ASSUME ~env'.late PROVE RowsInOrder'
<2>1. RowsInOrder
  BY <1>1, <1>6 DEF IInv, InOrderKnows
<2>2. SpeedingJustified'
  BY <1>1, <1>2, <2>1 DEF RowsInOrder, SpeedingJustified
<2> QED
  BY <1>1, <1>2, <2>1, <2>2 DEF RowsInOrder
<1> QED
  BY <1>1, <1>3, <1>4, <1>5, <1>6

LEMMA IdleIs ==
    /\ DOMAIN Idle = {"pc", "target", "rows", "snapshot", "speeding", "inactivity"}
    /\ Idle.pc = "idle" /\ Idle.rows = {} /\ Idle.speeding.streak = 0
  BY DEF Idle

\* A failed row, and a restart: what memory held is forgotten.
LEMMA Abandoned ==
    ASSUME IInv, UNCHANGED durable, WorldTyped', Steady, Abandon
    PROVE  IInv'
<1>1. memory' = Forgotten /\ task' = Idle
  BY DEF Abandon
<1>2. task'.pc = "idle" /\ task'.rows = {} /\ memory'.ready = FALSE /\ memory'.frontier = 0
  BY <1>1, IdleIs DEF Forgotten
<1>3. WorkTyped'
<2>1. DOMAIN memory' = {"ready", "frontier", "speeding", "inactivity"}
  BY <1>1 DEF Forgotten
<2>2. memory'.ready \in BOOLEAN
  BY <1>2, Zenon
<2>3. DOMAIN task' = {"pc", "target", "rows", "snapshot", "speeding", "inactivity"}
  BY <1>1, IdleIs
<2>4. task'.pc \in Pcs /\ task'.speeding.streak \in Nat
  BY <1>1, IdleIs DEF Pcs
<2> QED
  BY <2>1, <2>2, <2>3, <2>4, Zenon DEF WorkTyped
<1>4. TaskKnows'
  BY <1>2 DEF TaskKnows
<1>5. MemoryKnows'
  BY <1>2 DEF MemoryKnows, MidRow
<1>6. TaskInOrder'
  BY <1>2 DEF TaskInOrder
<1> QED
  BY <1>3, <1>4, <1>5, <1>6, DurableKept DEF IInv, Types, InOrderKnows
-----------------------------------------------------------------------------
(* A fix arrives, and its task starts.                                      *)

LEMMA BeginIs ==
    ASSUME NEW t, Begin(t), WorkTyped, UNCHANGED memory
    PROVE  /\ WorkTyped'
           /\ task'.pc = "drain" /\ task'.target = t /\ task'.rows = {}
<1>1. /\ DOMAIN task' = {"pc", "target", "rows", "snapshot", "speeding", "inactivity"}
      /\ task'.pc = "drain" /\ task'.target = t /\ task'.rows = {} /\ task'.speeding.streak = 0
  BY DEF Begin, Idle
<1> QED
  BY <1>1 DEF WorkTyped, Pcs

\* Between rows, memory knows the replay whatever the task does next.
LEMMA CalmMemory ==
    ASSUME IInv, UNCHANGED <<memory, alerts>>, Eligible' = Eligible, LatestEligible' = LatestEligible,
           \A t \in Eligible : journal'[t].kph = journal[t].kph /\ journal'[t].pos = journal[t].pos,
           task.pc \in {"idle", "drain"}, task'.pc \in {"idle", "drain", FirstStep(memory)}
    PROVE  MemoryKnows'
<1>1. Counted = Eligible /\ Counted' = Eligible
  BY DEF Counted, MidRow, FirstStep
<1>2. MemoryKnows /\ ~Unwritten(memory.speeding)
  BY DEF IInv, Unwritten
<1>3. memory.ready => TrueOf(memory.speeding, Eligible, journal) /\ Registered(memory.speeding, alerts)
  BY <1>1, <1>2 DEF MemoryKnows
<1>4. memory.ready => TrueOf(memory.speeding, Eligible, journal')
  BY <1>3, TrueKept
<1>5. /\ task'.pc \in {"bootstrap", "restore", "prime"} => ~memory.ready
      /\ MidRow' \/ task'.pc = "detectSpeeding" => memory.ready
      /\ task'.pc # "restore" /\ task'.pc # "prime"
  BY DEF MidRow, FirstStep
<1>6. /\ memory.ready => TrueOf(memory'.speeding, Counted', journal')
      /\ memory.ready => Registered(memory'.speeding, alerts')
  BY <1>1, <1>3, <1>4, Zenon
<1> QED
  BY <1>2, <1>5, <1>6 DEF MemoryKnows

LEMMA DeliverKeeps ==
    ASSUME IInv, NEW t \in Times, NEW p \in env.payloads, Deliver(t, p), WorldTyped', Steady
    PROVE  IInv'
<1>1. /\ task.pc = "idle" /\ t \notin Journaled /\ (env.late \/ InOrder(t))
      /\ journal' = Put(journal, t, Row(p)) /\ Begin(t)
      /\ UNCHANGED <<checkpoint, alerts, memory>>
  BY DEF Deliver
<1>2. /\ RowsTyped /\ AlertsTyped(alerts) /\ AlertsOf(alerts, Journaled) /\ WorkTyped
      /\ env \in Environment
  BY DEF IInv, Types, WorldTyped
<1>3. /\ Journaled' = Journaled \union {t} /\ Pending' = Pending \union {t}
      /\ Eligible' = Eligible /\ LatestEligible' = LatestEligible
      /\ journal'[t] = Row(p)
      /\ \A u \in Journaled : journal'[u] = journal[u]
  BY <1>1, <1>2, NewRow
<1>4. Eligible \subseteq Journaled /\ Pending \subseteq Journaled
  BY DEF Eligible, Pending
<1>5. \A u \in Eligible : journal'[u].kph = journal[u].kph /\ journal'[u].pos = journal[u].pos
  BY <1>3, <1>4
<1>6. RowsTyped'
<2>1. p \in [kph : Nat, pos : Int] /\ env'.payloads = env.payloads
  BY <1>2 DEF Environment, Steady
<2>2. Row(p) \in Sample /\ ~Row(p).eligible /\ [kph |-> Row(p).kph, pos |-> Row(p).pos] = p
  BY <2>1 DEF Row, Sample
<2> QED
  BY <1>2, <1>3, <2>1, <2>2 DEF RowsTyped
<1>7. AlertsTyped(alerts)' /\ AlertsOf(alerts, Journaled)' /\ AlertsAgree(alerts)'
<2>1. AlertsOf(alerts, Journaled')
  BY <1>2, <1>3 DEF AlertsOf
<2> QED
  BY <1>1, <1>2, <2>1, Zenon DEF IInv
<1>8. WorkTyped' /\ task'.pc = "drain" /\ task'.target = t /\ task'.rows = {}
  BY <1>1, <1>2, BeginIs
<1>9. TaskKnows'
  BY <1>3, <1>8 DEF TaskKnows
<1>10. MemoryKnows'
  BY <1>1, <1>3, <1>5, <1>8, CalmMemory
<1>11. CheckpointKnows'
<2>1. TrueOf(checkpoint, Eligible, journal) /\ Registered(checkpoint, alerts)
  BY DEF IInv, CheckpointKnows
<2>2. TrueOf(checkpoint, Eligible, journal')
  BY <1>5, <2>1, TrueKept
<2> QED
  BY <1>1, <1>3, <2>1, <2>2, Zenon DEF CheckpointKnows
<1>12. ASSUME ~env'.late PROVE RowsInOrder' /\ TaskInOrder'
<2>1. RowsInOrder /\ InOrder(t)
  BY <1>1, <1>12 DEF IInv, InOrderKnows, Steady
<2>2. t \in Nat /\ t <= t /\ \A u \in Journaled : u < t /\ u <= t /\ u \in Nat
<3>1. \A u \in Journaled : u <= t /\ u # t
  BY <1>1, <2>1 DEF InOrder
<3>2. \A u \in Journaled : u \in Nat
<4>1. Journaled \subseteq Times
  BY <1>2 DEF RowsTyped
<4> QED
  BY <4>1, TimesAreNat
<3>3. t \in Nat
  BY DEF Times
<3> QED
  BY <3>1, <3>2, <3>3
<2>3. \A u \in Journaled' : u <= t
  BY <1>3, <2>2
<2>4. TaskInOrder'
  BY <1>8, <2>3 DEF TaskInOrder
<2>5. \A u \in Journaled' : journal'[u].processed => journal'[u].eligible
  BY <1>3, <2>1 DEF RowsInOrder, Row
<2>6. \A u \in Eligible', v \in Pending' : u < v
  BY <1>3, <1>4, <2>1, <2>2 DEF RowsInOrder
<2>7. Upto(alerts, t)
<3>1. \A k \in AlertTypes : DOMAIN alerts.events[k] \subseteq DOMAIN alerts.receipts[k]
  BY DEF IInv, AlertsAgree
<3>2. \A u \in Journaled \union {0} : u <= t
  BY <2>2 DEF Times
<3> QED
  BY <1>2, <3>1, <3>2 DEF Upto, AlertsOf
<2>8. \A u \in Pending' : Upto(alerts', u)
  BY <1>1, <1>3, <2>1, <2>7, Zenon DEF RowsInOrder
<2>9. Disjoint(alerts')
  BY <1>1, <2>1, Zenon DEF RowsInOrder
<2>10. SpeedingJustified'
<3>1. ASSUME NEW c \in DOMAIN alerts.receipts["SPEEDING"]
      PROVE  \E s \in Chosen' :
        LET samples == {u \in Journaled' : alerts.receipts["SPEEDING"][c].streak <= u /\ u <= c}
        IN  /\ s.speedOn /\ s.fence /\ Cardinality(samples) >= s.confirm
            /\ \A u \in samples : journal'[u].kph > Context(s, journal'[u].pos).threshold
<4> DEFINE from == alerts.receipts["SPEEDING"][c].streak
           samples == {u \in Journaled : from <= u /\ u <= c}
<4>1. PICK s \in Chosen : /\ s.speedOn /\ s.fence /\ Cardinality(samples) >= s.confirm
                          /\ \A u \in samples : journal[u].kph > Context(s, journal[u].pos).threshold
  BY <2>1 DEF RowsInOrder, SpeedingJustified
<4>2. c \in Journaled
  BY <1>2, TwoKinds DEF AlertsOf
<4>3. {u \in Journaled' : from <= u /\ u <= c} = samples
<5>1. ~(t <= c)
  BY <2>2, <4>2 DEF Times
<5> HIDE DEF from
<5> QED
  BY <1>3, <5>1
<4>4. \A u \in samples : journal'[u] = journal[u]
  BY <1>3
<4>5. s \in Chosen'
  BY DEF Steady
<4>6. \A u \in samples : journal'[u].kph > Context(s, journal'[u].pos).threshold
  BY <4>1, <4>4
<4> QED
  BY <4>1, <4>3, <4>5, <4>6
<3> QED
  BY <1>1, <3>1 DEF SpeedingJustified
<2> QED
  BY <2>4, <2>5, <2>6, <2>8, <2>9, <2>10 DEF RowsInOrder
<1> QED
  BY <1>6, <1>7, <1>8, <1>9, <1>10, <1>11, <1>12 DEF IInv, Types, InOrderKnows

LEMMA RedeliverKeeps ==
    ASSUME IInv, NEW t \in Times, Redeliver(t), WorldTyped', Steady
    PROVE  IInv'
<1>1. /\ task.pc = "idle" /\ t \in Pending /\ (env.late \/ InOrder(t)) /\ Begin(t)
      /\ UNCHANGED <<durable, memory, alerts, journal>>
  BY DEF Redeliver, durable
<1>2. Journaled' = Journaled /\ Pending' = Pending /\ Eligible' = Eligible /\ LatestEligible' = LatestEligible
  BY <1>1, SameRows
<1>3. WorkTyped' /\ task'.pc = "drain" /\ task'.target = t /\ task'.rows = {}
  BY <1>1, BeginIs DEF IInv, Types
<1>4. TaskKnows'
  BY <1>1, <1>2, <1>3 DEF TaskKnows
<1>5. MemoryKnows'
  BY <1>1, <1>2, <1>3, CalmMemory
<1>6. ~env'.late => TaskInOrder'
  BY <1>1, <1>2, <1>3 DEF TaskInOrder, InOrder, Steady
<1> QED
  BY <1>1, <1>3, <1>4, <1>5, <1>6, DurableKept DEF IInv, Types, InOrderKnows

LEMMA DrainKeeps ==
    ASSUME IInv, Drain, WorldTyped', Steady
    PROVE  IInv'
<1>1. /\ task.pc = "drain"
      /\ task' = [task EXCEPT !.rows = {t \in Pending : t <= task.target}, !.pc = FirstStep(memory)]
      /\ UNCHANGED <<durable, memory, alerts, journal>>
  BY DEF Drain, durable
<1>2. Journaled' = Journaled /\ Pending' = Pending /\ Eligible' = Eligible /\ LatestEligible' = LatestEligible
  BY <1>1, SameRows
<1>3. DOMAIN task = {"pc", "target", "rows", "snapshot", "speeding", "inactivity"} /\ WorkTyped
  BY DEF IInv, Types, WorkTyped
<1>4. /\ task'.pc = FirstStep(memory) /\ task'.target = task.target
      /\ task'.rows = {t \in Pending : t <= task.target} /\ task'.speeding = task.speeding
      /\ DOMAIN task' = DOMAIN task
  BY <1>1, <1>3
<1>5. task'.pc \in {"detectSpeeding", "bootstrap"}
  BY <1>4 DEF FirstStep
<1>6. WorkTyped'
  BY <1>1, <1>3, <1>4, <1>5 DEF WorkTyped, Pcs
<1>7. TaskKnows'
  BY <1>1, <1>2, <1>4, <1>5 DEF TaskKnows, IInv
<1>8. MemoryKnows'
  BY <1>1, <1>2, <1>4, CalmMemory
<1>9. ~env'.late => TaskInOrder'
  BY <1>1, <1>2, <1>4, <1>5 DEF TaskInOrder, Steady, IInv, InOrderKnows
<1> QED
  BY <1>1, <1>6, <1>7, <1>8, <1>9, DurableKept DEF IInv, Types, InOrderKnows
-----------------------------------------------------------------------------
(* The detectors of a vehicle are rebuilt.                                  *)

\* A task at a row stays at it.
LEMMA SameRow ==
    ASSUME IInv, UNCHANGED journal, Steady, task.pc \notin {"idle", "drain"},
           task'.pc \notin {"idle", "drain"}, task'.rows = task.rows, task'.target = task.target
    PROVE  /\ TaskKnows' /\ Current' = Current
           /\ ~env'.late => \A t \in Journaled' : t <= task'.target
<1>1. Journaled' = Journaled /\ Pending' = Pending
  BY SameRows
<1>2. TaskKnows'
  BY <1>1 DEF IInv, TaskKnows
<1>3. Current' = Current
  BY DEF Current
<1>4. ~env'.late => \A t \in Journaled' : t <= task'.target
  BY <1>1 DEF IInv, InOrderKnows, TaskInOrder, Steady
<1> QED
  BY <1>2, <1>3, <1>4

\* A rebuilding vehicle is not ready, and its task has no row in hand.
LEMMA BootstrapKeeps ==
    ASSUME IInv, Bootstrap, WorldTyped', Steady
    PROVE  IInv'
<1>1. /\ task.pc = "bootstrap" /\ UNCHANGED <<durable, journal>>
      /\ memory' = [memory EXCEPT !.speeding = NoSpeeding, !.inactivity = NoInactivity]
      /\ task' = [task EXCEPT !.snapshot = settings, !.pc = "restore"]
  BY DEF Bootstrap, durable
<1>2. WorkTyped
  BY DEF IInv, Types
<1>3. /\ memory'.ready = memory.ready /\ memory'.frontier = memory.frontier
      /\ memory'.speeding = NoSpeeding /\ DOMAIN memory' = DOMAIN memory
      /\ task'.pc = "restore" /\ task'.rows = task.rows /\ task'.target = task.target
      /\ task'.speeding = task.speeding /\ DOMAIN task' = DOMAIN task
  BY <1>1, <1>2 DEF WorkTyped
<1>4. WorkTyped'
  BY <1>2, <1>3 DEF WorkTyped, Pcs
<1>5. TaskKnows' /\ (~env'.late => \A t \in Journaled' : t <= task'.target)
  BY <1>1, <1>3, SameRow
<1>6. MemoryKnows'
  BY <1>1, <1>3 DEF MemoryKnows, MidRow, IInv
<1>7. ~env'.late => TaskInOrder'
  BY <1>3, <1>5 DEF TaskInOrder
<1> QED
  BY <1>1, <1>4, <1>5, <1>6, <1>7, DurableKept DEF IInv, Types, InOrderKnows

LEMMA FrontierIs ==
    ASSUME RowsTyped, CheckpointKnows
    PROVE  TrustedFrontier = Latest(Eligible) /\ checkpoint.last = Latest(Eligible)
<1>1. LatestEligible = Latest(Eligible) /\ LatestEligible \in Nat
  BY RowSets
<1>2. checkpoint.last = Latest(Eligible)
  BY DEF CheckpointKnows, TrueOf
<1>3. {LatestEligible, checkpoint.last} = {LatestEligible}
  BY <1>1, <1>2
<1>4. Max({LatestEligible}) = LatestEligible
<2>1. LatestEligible >= LatestEligible
  BY <1>1
<2> QED
  BY <2>1 DEF Max
<1> QED
  BY <1>1, <1>2, <1>3, <1>4 DEF TrustedFrontier

LEMMA RestoredTrue ==
    ASSUME RowsTyped, CheckpointKnows, memory.speeding = NoSpeeding
    PROVE  TrueOf(Restored, Eligible, journal) /\ Registered(Restored, alerts)
<1>1. TrustedFrontier = Latest(Eligible)
  BY FrontierIs
<1>2. CASE Restored = checkpoint
  BY <1>2 DEF CheckpointKnows
<1>3. ASSUME NEW fp, Restored = Blank(TrustedFrontier, fp)
      PROVE  TrueOf(Restored, Eligible, journal) /\ Registered(Restored, alerts)
<2>1. /\ Restored.last = Latest(Eligible) /\ Restored.count = 0 /\ Restored.streak = 0
      /\ Restored.confirmed = FALSE
  BY <1>1, <1>3 DEF Blank
<2>2. TrueOf(Restored, Eligible, journal)
  BY <2>1, BlankTrue
<2>3. Registered(Restored, alerts)
  BY <2>1, Zenon DEF Registered
<2> QED
  BY <2>2, <2>3
<1>4. \/ Restored = checkpoint
      \/ Restored = Blank(TrustedFrontier, Fingerprint(task.snapshot))
      \/ TrustedFrontier = 0 /\ Restored = Blank(0, NoFingerprint)
  BY DEF Restored, NoSpeeding
<1> QED
  BY <1>2, <1>3, <1>4

LEMMA RestoreKeeps ==
    ASSUME IInv, Restore, WorldTyped', Steady
    PROVE  IInv'
<1>1. /\ task.pc = "restore" /\ UNCHANGED <<durable, journal, alerts>>
      /\ memory' = [memory EXCEPT !.speeding = Restored]
      /\ task' = [task EXCEPT !.pc = "prime"]
  BY DEF Restore, durable
<1>2. WorkTyped /\ RowsTyped /\ CheckpointKnows /\ MemoryKnows
  BY DEF IInv, Types
<1>3. /\ memory'.ready = memory.ready /\ memory'.frontier = memory.frontier
      /\ memory'.speeding = Restored /\ DOMAIN memory' = DOMAIN memory
      /\ task'.pc = "prime" /\ task'.rows = task.rows /\ task'.target = task.target
      /\ task'.speeding = task.speeding /\ DOMAIN task' = DOMAIN task
  BY <1>1, <1>2 DEF WorkTyped
<1>4. WorkTyped'
  BY <1>2, <1>3 DEF WorkTyped, Pcs
<1>5. TaskKnows' /\ (~env'.late => \A t \in Journaled' : t <= task'.target)
  BY <1>1, <1>3, SameRow
<1>6. MemoryKnows'
<2>1. /\ ~memory.ready /\ memory.frontier = 0 /\ memory.speeding = NoSpeeding
  BY <1>1, <1>2 DEF MemoryKnows
<2>2. TrueOf(Restored, Eligible, journal) /\ Registered(Restored, alerts)
  BY <1>2, <2>1, RestoredTrue
<2>3. Counted' = Eligible
<3>1. Eligible' = Eligible /\ ~MidRow'
  BY <1>1, <1>3, SameRows DEF MidRow
<3> QED
  BY <3>1 DEF Counted
<2>4. TrueOf(memory'.speeding, Counted', journal') /\ Registered(memory'.speeding, alerts')
  BY <1>1, <1>3, <2>2, <2>3, Zenon
<2>5. ~memory'.ready /\ memory'.frontier = 0 /\ ~MidRow'
  BY <1>3, <2>1 DEF MidRow
<2> QED
  BY <1>3, <2>4, <2>5 DEF MemoryKnows
<1>7. ~env'.late => TaskInOrder'
  BY <1>3, <1>5 DEF TaskInOrder
<1> QED
  BY <1>1, <1>4, <1>5, <1>6, <1>7, DurableKept DEF IInv, Types, InOrderKnows

LEMMA PrimeKeeps ==
    ASSUME IInv, Prime, WorldTyped', Steady
    PROVE  IInv'
<1>1. /\ task.pc = "prime" /\ UNCHANGED <<durable, journal, alerts>>
      /\ memory' = [memory EXCEPT !.inactivity = Primed(@, Fixes(ReplayRows), task.snapshot),
                                  !.frontier = TrustedFrontier, !.ready = TRUE]
      /\ task' = [task EXCEPT !.pc = "detectSpeeding"]
  BY DEF Prime, durable
<1>2. WorkTyped /\ RowsTyped /\ CheckpointKnows /\ MemoryKnows
  BY DEF IInv, Types
<1>3. /\ memory'.ready = TRUE /\ memory'.frontier = TrustedFrontier
      /\ memory'.speeding = memory.speeding /\ DOMAIN memory' = DOMAIN memory
      /\ task'.pc = "detectSpeeding" /\ task'.rows = task.rows /\ task'.target = task.target
      /\ task'.speeding = task.speeding /\ DOMAIN task' = DOMAIN task
  BY <1>1, <1>2 DEF WorkTyped
<1>4. WorkTyped'
<2>1. memory'.ready \in BOOLEAN
  BY <1>3, Zenon
<2> QED
  BY <1>2, <1>3, <2>1 DEF WorkTyped, Pcs
<1>5. TaskKnows' /\ (~env'.late => \A t \in Journaled' : t <= task'.target)
  BY <1>1, <1>3, SameRow
<1>6. MemoryKnows'
<2>1. Eligible' = Eligible /\ LatestEligible' = LatestEligible /\ LatestEligible = Latest(Eligible)
  BY <1>1, <1>2, SameRows, RowSets
<2>2. Counted = Eligible /\ Counted' = Eligible
  BY <1>1, <1>3, <2>1 DEF Counted, MidRow
<2>3. TrueOf(memory.speeding, Eligible, journal) /\ Registered(memory.speeding, alerts)
  BY <1>1, <1>2, <2>2 DEF MemoryKnows, Unwritten
<2>4. TrueOf(memory'.speeding, Counted', journal') /\ Registered(memory'.speeding, alerts')
  BY <1>1, <1>3, <2>2, <2>3, Zenon
<2>5. memory'.frontier = LatestEligible' /\ memory'.ready
  BY <1>2, <1>3, <2>1, FrontierIs
<2> QED
  BY <1>3, <2>4, <2>5 DEF MemoryKnows, MidRow
<1>7. ~env'.late => TaskInOrder'
  BY <1>3, <1>5 DEF TaskInOrder
<1> QED
  BY <1>1, <1>4, <1>5, <1>6, <1>7, DurableKept DEF IInv, Types, InOrderKnows
-----------------------------------------------------------------------------
(* The detectors see the row.                                               *)

\* What the speeding detector makes of the row in progress.
LEMMA SpeedingSeen ==
    ASSUME NEW st, NEW a, NEW c \in Times, NEW s \in Policies, RowsTyped, c \in Journaled,
           TrueOf(st, Eligible, journal), Registered(st, a)
    PROVE  LET d == DetectSpeeding(st, Observation(c), s)
               rows == IF c > Latest(Eligible) THEN Eligible \union {c} ELSE Eligible IN
           /\ TrueOf(d.state, rows, journal)
           /\ Registered(d.state, a) \/ (d.status = "CONFIRMED" /\ d.state.confirmedAt = c)
           /\ d.status = "CONFIRMED" => c > Latest(Eligible) /\ Counts(st, c, s, d)
<1> DEFINE d == DetectSpeeding(st, Observation(c), s)
<1>1. Eligible \subseteq Times /\ journal[c].kph \in Nat
  BY RowSets DEF RowsTyped, Sample
<1>2. st.last = Latest(Eligible) /\ st.last \in Nat /\ c \in Nat
  BY <1>1, LatestIs DEF TrueOf, Times
<1>3. CASE c <= st.last
<2>1. d.state = st /\ d.status = "IGNORED"
  BY <1>3, LateIgnored
<2>2. ~(c > Latest(Eligible))
  BY <1>2, <1>3
<2> HIDE DEF d
<2> QED
  BY <2>1, <2>2 DEF d
<1>4. CASE ~(c <= st.last)
<2>1. Counts(st, c, s, d) \/ Forgets(st, c, d)
  BY <1>1, <1>4, DetectIs
<2>2. c > Latest(Eligible)
  BY <1>2, <1>4
<2> HIDE DEF d
<2>3. CASE Forgets(st, c, d)
<3>1. TrueOf(d.state, Eligible \union {c}, journal)
  BY <1>1, <2>2, <2>3, ForgetsTrue
<3>2. Registered(d.state, a) /\ d.status # "CONFIRMED"
  BY <2>3, Zenon DEF Forgets, Registered
<3> QED
  BY <2>2, <3>1, <3>2 DEF d
<2>4. CASE Counts(st, c, s, d)
<3>1. TrueOf(d.state, Eligible \union {c}, journal)
  BY <1>1, <2>2, <2>4, CountsTrue
<3>2. CASE d.status = "CONFIRMED"
  BY <2>2, <2>4, <3>1, <3>2 DEF d, Counts
<3>3. CASE d.status # "CONFIRMED"
<4>1. CASE d.state.confirmed = FALSE
<5>1. Registered(d.state, a)
  BY <4>1, Zenon DEF Registered
<5> QED
  BY <2>2, <3>1, <3>3, <5>1 DEF d
<4>2. CASE d.state.confirmed # FALSE
<5>1. /\ Continues(st, Context(s, journal[c].pos), Fingerprint(s))
      /\ st.confirmed /\ d.state.confirmedAt = st.confirmedAt
  BY <2>4, <3>3, <4>2, Zenon DEF Counts
<5>2. st.streak # 0
  BY <5>1 DEF TrueOf
<5>3. d.state.streak = st.streak
  BY <2>4, <5>1, <5>2 DEF Counts
<5>4. Registered(d.state, a)
  BY <5>1, <5>3, Zenon DEF Registered
<5> QED
  BY <2>2, <3>1, <3>3, <5>4 DEF d
<4> QED
  BY <4>1, <4>2
<3> QED
  BY <3>2, <3>3
<2> QED
  BY <2>1, <2>3, <2>4
<1> QED
  BY <1>3, <1>4

\* A streak that reaches the confirmations justifies one, when no row between
\* its samples was left out.
LEMMA SeenJustifies ==
    ASSUME NEW st, NEW c \in Times, NEW s \in Policies, NEW chosen, s \in chosen, NEW d,
           RowsTyped, Counts(st, c, s, d), d.status = "CONFIRMED",
           TrueOf(d.state, Eligible \union {c}, journal),
           \A t \in Eligible : t <= c, \A t \in Journaled : t <= c => t \in Eligible \union {c},
           c \in Journaled
    PROVE  Justifies(journal, chosen, d.state.streak, c)
<1> DEFINE from == d.state.streak
           samples == {t \in DOMAIN journal : from <= t /\ t <= c}
           streak == {t \in Eligible \union {c} : t >= from}
<1>1. s.fence /\ s.speedOn /\ d.state.count >= s.confirm /\ d.state.fp = Fingerprint(s)
  BY DEF Counts
<1>2. d.state.count > 0
<2>1. s.confirm \in Nat \ {0} /\ d.state.count \in Nat
  BY IngestionAssumption DEF TrueOf
<2> QED
  BY <1>1, <2>1
<1>3. /\ d.state.count = Cardinality(streak) /\ d.state.streak \in Nat
      /\ \A t \in streak : /\ Context(d.state.fp, journal[t].pos) = d.state.ctx
                           /\ journal[t].kph > d.state.ctx.threshold
  BY <1>2 DEF TrueOf
<1>4. samples = streak
<2>1. Eligible \subseteq Journaled
  BY DEF Eligible
<2>2. \A t \in Journaled : t \in Nat
<3>1. Journaled \subseteq Times
  BY DEF RowsTyped
<3> QED
  BY <3>1, TimesAreNat
<2>3. c \in Nat /\ c <= c
  BY <2>2
<2>4. from \in Nat
  BY <1>3
<2> HIDE DEF from
<2> QED
  BY <2>1, <2>2, <2>3, <2>4 DEF Journaled
<1>5. \A t \in samples : journal[t].kph > Context(s, journal[t].pos).threshold
<2>1. \A t \in streak : Context(s, journal[t].pos) = d.state.ctx
  BY <1>1, <1>3, Threshold
<2> QED
  BY <1>3, <1>4, <2>1
<1>6. Cardinality(samples) >= s.confirm
  BY <1>1, <1>3, <1>4
<1> QED
  BY <1>1, <1>5, <1>6 DEF Justifies

LEMMA EvaluateSpeedingKeeps ==
    ASSUME IInv, EvaluateSpeeding, WorldTyped', Steady
    PROVE  IInv'
<1> DEFINE d == DetectSpeeding(memory.speeding, Observation(Current), settings)
<1>1. /\ task.pc = "detectSpeeding" /\ UNCHANGED <<durable, journal, alerts>>
      /\ memory' = [memory EXCEPT !.speeding = d.state]
      /\ task' = [task EXCEPT !.pc = "detectInactivity",
                    !.speeding = [status |-> d.status, streak |-> d.state.streak,
                                  confirmedAt |-> d.state.confirmedAt]]
  BY DEF EvaluateSpeeding, durable
<1>2. WorldTyped /\ WorkTyped /\ RowsTyped /\ TaskKnows /\ MemoryKnows
  BY DEF IInv, Types
<1>3. Current \in Pending /\ Current \in Times /\ Current \in Journaled /\ Current <= task.target
      /\ \A u \in Pending : Current <= u
<2>1. /\ Current \in Pending /\ Current \in Times /\ Current <= task.target
      /\ \A u \in Pending : Current <= u
  BY <1>1, <1>2, CurrentIs
<2> QED
  BY <2>1 DEF Pending
<1>4. settings \in Policies /\ settings \in Chosen
<2>1. env.policy \in Policies /\ env.choices \subseteq Policies
  BY <1>2 DEF WorldTyped, Environment
<2> QED
  BY <1>2, <2>1 DEF WorldTyped, Chosen
<1>5. /\ memory.ready /\ memory.frontier = Latest(Eligible)
      /\ TrueOf(memory.speeding, Eligible, journal) /\ Registered(memory.speeding, alerts)
<2>1. memory.ready /\ LatestEligible = Latest(Eligible)
  BY <1>1, <1>2, RowSets DEF MemoryKnows
<2>2. Counted = Eligible
  BY <1>1 DEF Counted, MidRow
<2> QED
  BY <1>1, <1>2, <2>1, <2>2 DEF MemoryKnows, Unwritten
<1> DEFINE rows == IF Current > Latest(Eligible) THEN Eligible \union {Current} ELSE Eligible
<1>6. /\ TrueOf(d.state, rows, journal)
      /\ Registered(d.state, alerts) \/ (d.status = "CONFIRMED" /\ d.state.confirmedAt = Current)
      /\ d.status = "CONFIRMED" =>
           Current > Latest(Eligible) /\ Counts(memory.speeding, Current, settings, d)
  BY <1>2, <1>3, <1>4, <1>5, SpeedingSeen
<1> HIDE DEF d, rows
<1>7. /\ memory'.ready = memory.ready /\ memory'.frontier = memory.frontier
      /\ memory'.speeding = d.state /\ DOMAIN memory' = DOMAIN memory
      /\ task'.pc = "detectInactivity" /\ task'.rows = task.rows /\ task'.target = task.target
      /\ task'.speeding.status = d.status /\ task'.speeding.streak = d.state.streak
      /\ DOMAIN task' = DOMAIN task
  BY <1>1, <1>2 DEF WorkTyped
<1>8. WorkTyped'
<2>1. d.state.streak \in Nat
  BY <1>6 DEF TrueOf
<2> QED
  BY <1>2, <1>7, <2>1 DEF WorkTyped, Pcs
<1>9. TaskKnows' /\ Current' = Current /\ (~env'.late => \A t \in Journaled' : t <= task'.target)
  BY <1>1, <1>7, SameRow
<1>10. MemoryKnows'
<2>1. Eligible' = Eligible /\ LatestEligible' = LatestEligible /\ LatestEligible = Latest(Eligible)
  BY <1>1, <1>2, SameRows, RowSets
<2>2. Counted' = rows
  BY <1>5, <1>7, <1>9, <2>1 DEF Counted, MidRow, ReplayEligible, rows
<2>3. TrueOf(memory'.speeding, Counted', journal')
  BY <1>1, <1>6, <1>7, <2>2, Zenon
<2>4. Registered(memory'.speeding, alerts') \/ Unwritten(memory.speeding)'
<3>1. CASE Registered(d.state, alerts)
  BY <1>1, <1>7, <3>1, Zenon
<3>2. CASE d.status = "CONFIRMED" /\ d.state.confirmedAt = Current
<4>1. Unwritten(memory.speeding)'
  BY <1>7, <1>9, <3>2 DEF Unwritten
<4> QED
  BY <4>1
<3> QED
  BY <1>6, <3>1, <3>2
<2>5. memory'.ready /\ memory'.frontier = LatestEligible'
  BY <1>5, <1>7, <2>1
<2> QED
  BY <1>7, <2>3, <2>4, <2>5 DEF MemoryKnows
<1>11. ASSUME ~env'.late PROVE TaskInOrder'
<2>1. ASSUME d.status = "CONFIRMED" PROVE Justifies(journal, Chosen, d.state.streak, Current)
<3>1. Current > Latest(Eligible) /\ Counts(memory.speeding, Current, settings, d)
  BY <1>6, <2>1
<3>2. TrueOf(d.state, Eligible \union {Current}, journal)
  BY <1>6, <3>1 DEF rows
<3>3. RowsInOrder
  BY <1>11 DEF Steady, IInv, InOrderKnows
<3>4. \A t \in Eligible : t <= Current
<4>1. \A t \in Eligible : t < Current /\ t \in Nat
  BY <1>2, <1>3, <3>3, RowSets DEF RowsInOrder, Times
<4>2. Current \in Nat
  BY <1>3 DEF Times
<4> QED
  BY <4>1, <4>2
<3>5. ASSUME NEW t \in Journaled, t <= Current PROVE t \in Eligible \union {Current}
<4>1. CASE t \in Pending
<5>1. Current <= t /\ t \in Nat /\ Current \in Nat
  BY <1>2, <1>3, <4>1, RowSets DEF Times
<5> QED
  BY <3>5, <5>1
<4>2. CASE t \notin Pending
  BY <3>3, <4>2 DEF Pending, Eligible, RowsInOrder
<4> QED
  BY <4>1, <4>2
<3> QED
  BY <1>2, <1>3, <1>4, <2>1, <3>1, <3>2, <3>4, <3>5, SeenJustifies
<2>2. task'.speeding.status = "CONFIRMED" => Justifies(journal', Chosen', task'.speeding.streak, Current')
  BY <1>1, <1>7, <1>9, <2>1, Zenon DEF Steady
<2> QED
  BY <1>7, <1>9, <1>11, <2>2 DEF TaskInOrder
<1> QED
  BY <1>1, <1>8, <1>9, <1>10, <1>11, DurableKept DEF IInv, Types, InOrderKnows

LEMMA EvaluateInactivityKeeps ==
    ASSUME IInv, EvaluateInactivity, WorldTyped', Steady
    PROVE  IInv'
<1> DEFINE d == DetectInactivity(memory.inactivity, Observation(Current), settings)
<1>1. /\ task.pc = "detectInactivity" /\ UNCHANGED <<durable, journal, alerts>>
      /\ memory' = [memory EXCEPT !.inactivity = d.state]
      /\ task' = [task EXCEPT !.pc = "writeSpeeding", !.inactivity = d.status]
  BY DEF EvaluateInactivity, durable
<1> HIDE DEF d
<1>2. WorkTyped /\ MemoryKnows
  BY DEF IInv, Types
<1>3. /\ memory'.ready = memory.ready /\ memory'.frontier = memory.frontier
      /\ memory'.speeding = memory.speeding /\ DOMAIN memory' = DOMAIN memory
      /\ task'.pc = "writeSpeeding" /\ task'.rows = task.rows /\ task'.target = task.target
      /\ task'.speeding = task.speeding /\ DOMAIN task' = DOMAIN task
  BY <1>1, <1>2 DEF WorkTyped
<1>4. WorkTyped'
  BY <1>2, <1>3 DEF WorkTyped, Pcs
<1>5. TaskKnows' /\ Current' = Current /\ (~env'.late => \A t \in Journaled' : t <= task'.target)
  BY <1>1, <1>3, SameRow
<1>6. MemoryKnows'
<2>1. Eligible' = Eligible /\ LatestEligible' = LatestEligible
  BY <1>1, SameRows
<2>2. Counted' = Counted /\ MidRow
  BY <1>1, <1>3, <1>5, <2>1 DEF Counted, MidRow, ReplayEligible
<2>3. /\ memory.ready /\ memory.frontier = LatestEligible /\ TrueOf(memory.speeding, Counted, journal)
      /\ Registered(memory.speeding, alerts) \/ Unwritten(memory.speeding)
  BY <1>2, <2>2 DEF MemoryKnows
<2>4. TrueOf(memory'.speeding, Counted', journal')
  BY <1>1, <1>3, <2>2, <2>3, Zenon
<2>5. Registered(memory'.speeding, alerts') \/ Unwritten(memory.speeding)'
<3>1. Registered(memory.speeding, alerts) => Registered(memory'.speeding, alerts')
  BY <1>1, <1>3, Zenon
<3>2. Unwritten(memory.speeding) => Unwritten(memory.speeding)'
  BY <1>3, <1>5 DEF Unwritten
<3> QED
  BY <2>3, <3>1, <3>2
<2> QED
  BY <1>3, <2>1, <2>3, <2>4, <2>5 DEF MemoryKnows
<1>7. ASSUME ~env'.late PROVE TaskInOrder'
<2>1. TaskInOrder
  BY <1>7 DEF Steady, IInv, InOrderKnows
<2>2. task.speeding.status = "CONFIRMED" => Justifies(journal, Chosen, task.speeding.streak, Current)
  BY <1>1, <2>1 DEF TaskInOrder
<2>3. task'.speeding.status = "CONFIRMED" => Justifies(journal', Chosen', task'.speeding.streak, Current')
  BY <1>1, <1>3, <1>5, <2>2, Zenon DEF Steady
<2> QED
  BY <1>3, <1>5, <1>7, <2>3 DEF TaskInOrder
<1> QED
  BY <1>1, <1>4, <1>5, <1>6, <1>7, DurableKept DEF IInv, Types, InOrderKnows
-----------------------------------------------------------------------------
(* The writes of a row.                                                     *)

LEMMA JustifiedIs ==
    SpeedingJustified <=> \A c \in DOMAIN alerts.receipts["SPEEDING"] :
                              Justifies(journal, Chosen, alerts.receipts["SPEEDING"][c].streak, c)
  BY DEF SpeedingJustified, Justifies, Journaled

LEMMA UptoGrows ==
    ASSUME NEW a, AlertsTyped(a), NEW t \in Times, NEW u \in Times, Upto(a, t), t <= u
    PROVE  Upto(a, u)
<1>0. t \in Nat /\ u \in Nat /\ \A x \in Times \union {0} : x \in Nat
  BY DEF Times
<1>1. ASSUME NEW k \in AlertTypes, NEW r \in DOMAIN a.receipts[k] PROVE r <= u
<2>1. r \in Nat /\ r <= t
  BY <1>0 DEF AlertsTyped, Upto
<2> QED
  BY <1>0, <2>1
<1>2. ASSUME NEW k \in AlertTypes, NEW e \in DOMAIN a.events[k]
      PROVE  e <= u /\ a.events[k][e].last <= u /\ a.events[k][e].resolved <= u
<2>1. e \in Nat /\ a.events[k][e].last \in Nat /\ a.events[k][e].resolved \in Nat
  BY <1>0 DEF AlertsTyped, Event
<2>2. e <= t /\ a.events[k][e].last <= t /\ a.events[k][e].resolved <= t
  BY DEF Upto
<2> QED
  BY <1>0, <2>1, <2>2
<1> QED
  BY <1>1, <1>2 DEF Upto

\* A confirmation that is registered stays so.
LEMMA StaysRegistered ==
    ASSUME NEW a, NEW k \in AlertTypes, NEW at, NEW streak, NEW b, Effect(a, b, k, at, streak),
           NEW st, Registered(st, a)
    PROVE  Registered(st, b)
<1>1. /\ DOMAIN a.receipts["SPEEDING"] \subseteq DOMAIN b.receipts["SPEEDING"]
      /\ \A r \in DOMAIN a.receipts["SPEEDING"] :
           b.receipts["SPEEDING"][r].streak = a.receipts["SPEEDING"][r].streak
  BY EffectReceipts, TwoKinds
<1> QED
  BY <1>1 DEF Registered

\* What a write leaves true, of either kind.
LEMMA Written ==
    ASSUME IInv, NEW k \in AlertTypes, NEW streak \in Nat, Effect(alerts, alerts', k, Current, streak),
           UNCHANGED <<journal, checkpoint>>, Steady, task.pc \notin {"idle", "drain"},
           ~env.late /\ k = "SPEEDING" /\ DOMAIN alerts'.receipts[k] # DOMAIN alerts.receipts[k]
             => Justifies(journal, Chosen, streak, Current)
    PROVE  /\ RowsTyped' /\ AlertsTyped(alerts)' /\ AlertsOf(alerts, Journaled)'
           /\ AlertsAgree(alerts)' /\ CheckpointKnows'
           /\ ~env'.late => RowsInOrder'
<1>1. /\ RowsTyped /\ AlertsTyped(alerts) /\ AlertsOf(alerts, Journaled) /\ AlertsAgree(alerts)
      /\ TaskKnows /\ CheckpointKnows /\ Shaped(alerts)
  BY DEF IInv, Types, AlertsTyped
<1>2. /\ Current \in Pending /\ Current \in Times /\ Current \in Journaled
      /\ \A u \in Pending : Current <= u
<2>1. Current \in Pending /\ Current \in Times /\ \A u \in Pending : Current <= u
  BY <1>1, CurrentIs
<2> QED
  BY <2>1 DEF Pending
<1>3. Journaled' = Journaled /\ Pending' = Pending /\ Eligible' = Eligible
  BY SameRows
<1>4. RowsTyped'
  BY <1>1, <1>3 DEF RowsTyped, Steady
<1>5. AlertsTyped(alerts') /\ AlertsAgree(alerts')
  BY <1>1, <1>2, EffectTyped
<1>6. AlertsOf(alerts', Journaled)
  BY <1>1, <1>2, EffectOf
<1>7. CheckpointKnows'
<2>1. Registered(checkpoint, alerts')
  BY <1>1, StaysRegistered DEF CheckpointKnows
<2> QED
  BY <1>1, <1>3, <2>1, Zenon DEF CheckpointKnows
<1>8. ASSUME ~env'.late PROVE RowsInOrder'
<2>1. RowsInOrder /\ ~env.late
  BY <1>8 DEF IInv, InOrderKnows, Steady
<2>2. Upto(alerts, Current) /\ Disjoint(alerts)
  BY <1>2, <2>1 DEF RowsInOrder
<2>3. Upto(alerts', Current) /\ Disjoint(alerts')
  BY <1>1, <1>2, <2>2, EffectInOrder
<2>4. ASSUME NEW u \in Pending PROVE Upto(alerts', u)
<3>1. u \in Times
  BY <1>1, RowSets
<3> QED
  BY <1>2, <1>5, <2>3, <3>1, UptoGrows
<2>5. ASSUME NEW c \in DOMAIN alerts'.receipts["SPEEDING"]
      PROVE  Justifies(journal, Chosen, alerts'.receipts["SPEEDING"][c].streak, c)
<3>1. /\ DOMAIN alerts'.receipts["SPEEDING"] \subseteq DOMAIN alerts.receipts["SPEEDING"] \union {Current}
      /\ k # "SPEEDING" => alerts'.receipts["SPEEDING"] = alerts.receipts["SPEEDING"]
      /\ \A r \in DOMAIN alerts.receipts["SPEEDING"] :
           alerts'.receipts["SPEEDING"][r].streak = alerts.receipts["SPEEDING"][r].streak
      /\ Current \in DOMAIN alerts'.receipts[k] /\ Current \notin DOMAIN alerts.receipts[k]
           => alerts'.receipts[k][Current].streak = streak
  BY EffectReceipts, TwoKinds
<3>2. CASE c \in DOMAIN alerts.receipts["SPEEDING"]
  BY <2>1, <3>1, <3>2, JustifiedIs DEF RowsInOrder
<3>3. CASE c \notin DOMAIN alerts.receipts["SPEEDING"]
<4>1. k = "SPEEDING" /\ c = Current /\ alerts'.receipts["SPEEDING"][c].streak = streak
  BY <3>1, <3>3
<4>2. DOMAIN alerts'.receipts[k] # DOMAIN alerts.receipts[k]
  BY <3>3, <4>1
<4>3. Justifies(journal, Chosen, streak, Current)
  BY <2>1, <4>1, <4>2
<4> QED
  BY <4>1, <4>3
<3> QED
  BY <3>2, <3>3
<2>6. SpeedingJustified'
<3>1. \A c \in DOMAIN alerts'.receipts["SPEEDING"] :
        Justifies(journal', Chosen', alerts'.receipts["SPEEDING"][c].streak, c)
  BY <2>5 DEF Steady
<3> QED
  BY <3>1 DEF SpeedingJustified, Justifies, Journaled
<2> QED
  BY <1>3, <2>1, <2>3, <2>4, <2>6 DEF RowsInOrder
<1> QED
  BY <1>3, <1>4, <1>5, <1>6, <1>7, <1>8

\* After a write that committed the task goes on; memory is as it was.
LEMMA WriteSpeedingKeeps ==
    ASSUME IInv, WriteSpeeding, WorldTyped', Steady
    PROVE  IInv'
<1> DEFINE r == Process(alerts, "SPEEDING", task.speeding.status, Current,
                        task.speeding.streak, task.speeding.confirmedAt)
<1>1. /\ task.pc = "writeSpeeding" /\ UNCHANGED <<journal, checkpoint>>
      /\ IF r.ok THEN /\ alerts' = r.alerts
                      /\ task' = [task EXCEPT !.pc = "writeInactivity"]
                      /\ UNCHANGED memory
                 ELSE Abandon /\ UNCHANGED alerts
  BY DEF WriteSpeeding
<1>2. CASE ~r.ok
  BY <1>1, <1>2, Abandoned DEF durable
<1>3. CASE r.ok
<2>1. /\ WorkTyped /\ RowsTyped /\ TaskKnows /\ MemoryKnows /\ AlertsTyped(alerts) /\ AlertsAgree(alerts)
      /\ task.speeding.streak \in Nat
  BY DEF IInv, Types, WorkTyped
<2>2. Current \in Times
  BY <1>1, <2>1, CurrentIs
<2>3. "SPEEDING" \in AlertTypes
  BY TwoKinds
<2>4. /\ Effect(alerts, alerts', "SPEEDING", Current, task.speeding.streak)
      /\ task.speeding.status = "CONFIRMED" =>
           /\ Current \in DOMAIN alerts'.receipts["SPEEDING"]
           /\ alerts'.receipts["SPEEDING"][Current].streak = task.speeding.streak
  BY <1>1, <1>3, <2>1, <2>2, <2>3, ProcessEffect
<2>5. task.speeding.status # "CONFIRMED" =>
        DOMAIN alerts'.receipts["SPEEDING"] = DOMAIN alerts.receipts["SPEEDING"]
  BY <1>1, <1>3, <2>1, <2>2, <2>3, OnlyConfirms
<2>6. UNCHANGED <<journal, checkpoint, memory>> /\ task' = [task EXCEPT !.pc = "writeInactivity"]
  BY <1>1, <1>3
<2> HIDE DEF r
<2>7. ~env.late /\ task.speeding.status = "CONFIRMED"
        => Justifies(journal, Chosen, task.speeding.streak, Current)
  BY <1>1 DEF IInv, InOrderKnows, TaskInOrder
<2>8. /\ RowsTyped' /\ AlertsTyped(alerts)' /\ AlertsOf(alerts, Journaled)'
      /\ AlertsAgree(alerts)' /\ CheckpointKnows'
      /\ ~env'.late => RowsInOrder'
  BY <1>1, <2>1, <2>3, <2>4, <2>5, <2>6, <2>7, Written
<2>9. /\ task'.pc = "writeInactivity" /\ task'.rows = task.rows /\ task'.target = task.target
      /\ task'.speeding = task.speeding /\ DOMAIN task' = DOMAIN task
  BY <2>1, <2>6 DEF WorkTyped
<2>10. WorkTyped'
  BY <2>1, <2>6, <2>9 DEF WorkTyped, Pcs
<2>11. TaskKnows' /\ Current' = Current /\ (~env'.late => \A t \in Journaled' : t <= task'.target)
  BY <1>1, <2>6, <2>9, SameRow
<2>12. MemoryKnows'
<3>1. Eligible' = Eligible /\ LatestEligible' = LatestEligible
  BY <2>6, SameRows
<3>2. Counted' = Counted /\ MidRow
  BY <1>1, <2>6, <2>9, <2>11, <3>1 DEF Counted, MidRow, ReplayEligible
<3>3. /\ memory.ready /\ memory.frontier = LatestEligible /\ TrueOf(memory.speeding, Counted, journal)
      /\ Registered(memory.speeding, alerts) \/ Unwritten(memory.speeding)
  BY <2>1, <3>2 DEF MemoryKnows
<3>4. TrueOf(memory'.speeding, Counted', journal')
  BY <2>6, <3>2, <3>3, Zenon
<3>5. Registered(memory.speeding, alerts')
<4>1. CASE Registered(memory.speeding, alerts)
  BY <2>3, <2>4, <4>1, StaysRegistered
<4>2. CASE Unwritten(memory.speeding)
  BY <2>4, <4>2 DEF Unwritten, Registered
<4> QED
  BY <3>3, <4>1, <4>2
<3>6. Registered(memory'.speeding, alerts')
  BY <2>6, <3>5, Zenon
<3> QED
  BY <2>6, <2>9, <3>1, <3>3, <3>4, <3>6 DEF MemoryKnows
<2>13. ~env'.late => TaskInOrder'
  BY <2>9, <2>11 DEF TaskInOrder
<2> QED
  BY <2>8, <2>10, <2>11, <2>12, <2>13 DEF IInv, Types, InOrderKnows
<1> QED
  BY <1>2, <1>3

LEMMA WriteInactivityKeeps ==
    ASSUME IInv, WriteInactivity, WorldTyped', Steady
    PROVE  IInv'
<1> DEFINE r == Process(alerts, "INACTIVITY", task.inactivity, Current, 0, 0)
<1>1. /\ task.pc = "writeInactivity" /\ UNCHANGED <<journal, checkpoint>>
      /\ IF r.ok THEN /\ alerts' = r.alerts
                      /\ task' = [task EXCEPT !.pc = "complete"]
                      /\ UNCHANGED memory
                 ELSE Abandon /\ UNCHANGED alerts
  BY DEF WriteInactivity
<1>2. CASE ~r.ok
  BY <1>1, <1>2, Abandoned DEF durable
<1>3. CASE r.ok
<2>1. WorkTyped /\ RowsTyped /\ TaskKnows /\ MemoryKnows /\ AlertsTyped(alerts) /\ AlertsAgree(alerts)
  BY DEF IInv, Types
<2>2. Current \in Times
  BY <1>1, <2>1, CurrentIs
<2>3. "INACTIVITY" \in AlertTypes /\ 0 \in Nat
  BY TwoKinds
<2>4. Effect(alerts, alerts', "INACTIVITY", Current, 0)
  BY <1>1, <1>3, <2>1, <2>2, <2>3, ProcessEffect
<2>5. UNCHANGED <<journal, checkpoint, memory>> /\ task' = [task EXCEPT !.pc = "complete"]
  BY <1>1, <1>3
<2> HIDE DEF r
<2>6. /\ RowsTyped' /\ AlertsTyped(alerts)' /\ AlertsOf(alerts, Journaled)'
      /\ AlertsAgree(alerts)' /\ CheckpointKnows'
      /\ ~env'.late => RowsInOrder'
  BY <1>1, <2>3, <2>4, <2>5, Written
<2>7. /\ task'.pc = "complete" /\ task'.rows = task.rows /\ task'.target = task.target
      /\ task'.speeding = task.speeding /\ DOMAIN task' = DOMAIN task
  BY <2>1, <2>5 DEF WorkTyped
<2>8. WorkTyped'
  BY <2>1, <2>5, <2>7 DEF WorkTyped, Pcs
<2>9. TaskKnows' /\ Current' = Current /\ (~env'.late => \A t \in Journaled' : t <= task'.target)
  BY <1>1, <2>5, <2>7, SameRow
<2>10. MemoryKnows'
<3>1. Eligible' = Eligible /\ LatestEligible' = LatestEligible
  BY <2>5, SameRows
<3>2. Counted' = Counted /\ MidRow
  BY <1>1, <2>5, <2>7, <2>9, <3>1 DEF Counted, MidRow, ReplayEligible
<3>3. /\ memory.ready /\ memory.frontier = LatestEligible /\ TrueOf(memory.speeding, Counted, journal)
      /\ Registered(memory.speeding, alerts)
  BY <1>1, <2>1, <3>2 DEF MemoryKnows, Unwritten
<3>4. TrueOf(memory'.speeding, Counted', journal')
  BY <2>5, <3>2, <3>3, Zenon
<3>5. Registered(memory.speeding, alerts')
  BY <2>3, <2>4, <3>3, StaysRegistered
<3>6. Registered(memory'.speeding, alerts')
  BY <2>5, <3>5, Zenon
<3> QED
  BY <2>5, <2>7, <3>1, <3>3, <3>4, <3>6 DEF MemoryKnows
<2>11. ~env'.late => TaskInOrder'
  BY <2>7, <2>9 DEF TaskInOrder
<2> QED
  BY <2>6, <2>8, <2>9, <2>10, <2>11 DEF IInv, Types, InOrderKnows
<1> QED
  BY <1>2, <1>3
-----------------------------------------------------------------------------
(* A row is completed.                                                      *)

LEMMA CompleteKeeps ==
    ASSUME IInv, Complete, WorldTyped', Steady
    PROVE  IInv'
<1> DEFINE t == Current
           eligible == ReplayEligible(t)
           left == task.rows \ {t}
<1>1. /\ task.pc = "complete" /\ UNCHANGED alerts
      /\ IF Acceptable(checkpoint, memory.speeding)
         THEN /\ checkpoint' = memory.speeding
              /\ journal' = [journal EXCEPT ![t].processed = TRUE, ![t].eligible = eligible]
              /\ memory' = [memory EXCEPT !.frontier = IF eligible THEN t ELSE @]
              /\ task' = IF left = {} THEN Idle
                         ELSE [task EXCEPT !.rows = left, !.pc = FirstStep(memory)]
         ELSE Abandon /\ UNCHANGED <<journal, checkpoint>>
  BY DEF Complete
<1>2. CASE ~Acceptable(checkpoint, memory.speeding)
  BY <1>1, <1>2, Abandoned DEF durable
<1>3. CASE Acceptable(checkpoint, memory.speeding)
<2>1. /\ WorkTyped /\ RowsTyped /\ TaskKnows /\ MemoryKnows
      /\ AlertsTyped(alerts) /\ AlertsOf(alerts, Journaled) /\ AlertsAgree(alerts)
  BY DEF IInv, Types
<2>2. /\ checkpoint' = memory.speeding
      /\ journal' = [journal EXCEPT ![t].processed = TRUE, ![t].eligible = eligible]
      /\ memory' = [memory EXCEPT !.frontier = IF eligible THEN t ELSE @]
      /\ task' = IF left = {} THEN Idle ELSE [task EXCEPT !.rows = left, !.pc = FirstStep(memory)]
      /\ alerts' = alerts
  BY <1>1, <1>3
<2>3. /\ t \in Pending /\ t \in Times /\ t \in Journaled /\ t \in task.rows /\ t <= task.target
      /\ task.target \in Pending /\ task.rows = {u \in Pending : u <= task.target}
      /\ \A u \in Pending : t <= u
<3>1. /\ t \in Pending /\ t \in Times /\ t \in task.rows /\ t <= task.target
      /\ task.target \in Pending /\ task.rows = {u \in Pending : u <= task.target}
      /\ \A u \in Pending : t <= u
  BY <1>1, <2>1, CurrentIs
<3> QED
  BY <3>1 DEF Pending
<2>4. eligible \in BOOLEAN /\ (eligible <=> t > memory.frontier)
  BY DEF ReplayEligible
<2> HIDE DEF t, eligible
<2>5. /\ Journaled' = Journaled /\ Pending' = Pending \ {t}
      /\ Eligible' = IF eligible THEN Eligible \union {t} ELSE Eligible
      /\ journal'[t] \in Sample
      /\ journal'[t].processed = TRUE /\ journal'[t].eligible = eligible
      /\ journal'[t].kph = journal[t].kph /\ journal'[t].pos = journal[t].pos
      /\ \A u \in Journaled : u # t => journal'[u] = journal[u]
  BY <2>1, <2>2, <2>3, <2>4, RowDone
<2>6. Eligible \subseteq Journaled /\ Pending \subseteq Journaled /\ Eligible \subseteq Times
      /\ Pending \subseteq Times
  BY <2>1, RowSets DEF Eligible, Pending
<2>7. \A u \in Journaled : journal'[u].kph = journal[u].kph /\ journal'[u].pos = journal[u].pos
  BY <2>5
<2>8. /\ memory.ready /\ memory.frontier = Latest(Eligible)
      /\ Eligible' = Counted /\ TrueOf(memory.speeding, Counted, journal)
      /\ Registered(memory.speeding, alerts)
<3>1. MidRow /\ ~Unwritten(memory.speeding) /\ LatestEligible = Latest(Eligible)
  BY <1>1, <2>1, RowSets DEF MidRow, Unwritten
<3>2. Counted = IF eligible THEN Eligible \union {t} ELSE Eligible
  BY <3>1 DEF Counted, eligible, t
<3> QED
  BY <2>1, <2>5, <3>1, <3>2 DEF MemoryKnows
<2>9. TrueOf(memory.speeding, Eligible', journal')
<3>1. Eligible' \subseteq Journaled
  BY <2>3, <2>5, <2>6
<3>2. \A u \in Eligible' : journal'[u].kph = journal[u].kph /\ journal'[u].pos = journal[u].pos
  BY <2>7, <3>1
<3>3. TrueOf(memory.speeding, Eligible', journal)
  BY <2>8, Zenon
<3> QED
  BY <3>2, <3>3, TrueKept
<2>10. RowsTyped'
<3>1. /\ Journaled \subseteq Times
      /\ \A u \in Journaled : /\ journal[u] \in Sample
                              /\ [kph |-> journal[u].kph, pos |-> journal[u].pos] \in env.payloads
                              /\ journal[u].eligible => journal[u].processed
  BY <2>1 DEF RowsTyped
<3>2. ASSUME NEW u \in Journaled
      PROVE  /\ journal'[u] \in Sample
             /\ [kph |-> journal'[u].kph, pos |-> journal'[u].pos] \in env.payloads
             /\ journal'[u].eligible => journal'[u].processed
<4>1. CASE u = t
  BY <2>5, <2>7, <3>1, <4>1
<4>2. CASE u # t
  BY <2>5, <3>1, <4>2
<4> QED
  BY <4>1, <4>2
<3> QED
  BY <2>5, <3>1, <3>2 DEF RowsTyped, Steady
<2>11. AlertsTyped(alerts)' /\ AlertsOf(alerts, Journaled)' /\ AlertsAgree(alerts)'
  BY <2>1, <2>2, <2>5, Zenon
<2>12. CheckpointKnows'
  BY <2>2, <2>8, <2>9, Zenon DEF CheckpointKnows
<2>13. /\ memory'.ready = memory.ready /\ memory'.speeding = memory.speeding
       /\ memory'.frontier = IF eligible THEN t ELSE memory.frontier
       /\ DOMAIN memory' = DOMAIN memory
  BY <2>1, <2>2 DEF WorkTyped
<2>14. \/ task' = Idle
       \/ /\ task'.pc = "detectSpeeding" /\ task'.rows = left /\ task'.target = task.target
          /\ task'.speeding = task.speeding /\ DOMAIN task' = DOMAIN task /\ left # {}
<3>1. FirstStep(memory) = "detectSpeeding"
  BY <2>8 DEF FirstStep
<3>2. CASE left = {}
  BY <2>2, <3>2
<3>3. CASE left # {}
<4>1. task' = [task EXCEPT !.rows = left, !.pc = FirstStep(memory)]
  BY <2>2, <3>3
<4> HIDE DEF left
<4> QED
  BY <2>1, <3>1, <3>3, <4>1 DEF WorkTyped
<3> QED
  BY <3>2, <3>3
<2>15. WorkTyped'
<3>1. DOMAIN memory' = {"ready", "frontier", "speeding", "inactivity"} /\ memory'.ready \in BOOLEAN
  BY <2>1, <2>13 DEF WorkTyped
<3>2. CASE task' = Idle
  BY <3>1, <3>2, IdleIs DEF WorkTyped, Pcs
<3>3. CASE task' # Idle
  BY <2>1, <2>14, <3>1, <3>3 DEF WorkTyped, Pcs
<3> QED
  BY <3>2, <3>3
<2>16. TaskKnows'
<3>1. CASE task' = Idle
  BY <3>1, IdleIs DEF TaskKnows
<3>2. CASE task' # Idle
<4>1. task'.pc = "detectSpeeding" /\ task'.rows = left /\ task'.target = task.target /\ left # {}
  BY <2>14, <3>2
<4>2. task'.rows = {u \in Pending' : u <= task'.target}
  BY <2>3, <2>5, <4>1
<4>3. task.target # t
<5>1. PICK u \in Pending : u <= task.target /\ u # t /\ t <= u
  BY <2>3, <4>1
<5>2. u \in Nat /\ t \in Nat /\ task.target \in Nat
  BY <2>3, <2>6 DEF Times
<5> QED
  BY <5>1, <5>2
<4>4. task'.target \in Pending'
  BY <2>3, <2>5, <4>1, <4>3
<4> QED
  BY <4>1, <4>2, <4>4 DEF TaskKnows
<3> QED
  BY <3>1, <3>2
<2>17. MemoryKnows'
<3>1. task'.pc \in {"idle", "detectSpeeding"}
  BY <2>14, IdleIs
<3>2. Counted' = Eligible'
  BY <3>1 DEF Counted, MidRow
<3>3. TrueOf(memory'.speeding, Counted', journal') /\ Registered(memory'.speeding, alerts')
  BY <2>2, <2>8, <2>9, <2>13, <3>2, Zenon
<3>4. LatestEligible' = Latest(Eligible')
  BY DEF LatestEligible, Latest
<3>5. memory'.frontier = Latest(Eligible')
<4>1. CASE eligible
<5>1. Eligible' = Eligible \union {t} /\ t > Latest(Eligible)
  BY <2>4, <2>5, <2>8, <4>1
<5> QED
  BY <2>3, <2>6, <2>13, <4>1, <5>1, LatestGrows
<4>2. CASE ~eligible
  BY <2>5, <2>8, <2>13, <4>2
<4> QED
  BY <4>1, <4>2
<3> QED
  BY <2>8, <2>13, <3>1, <3>3, <3>4, <3>5 DEF MemoryKnows, MidRow
<2>18. ASSUME ~env'.late PROVE RowsInOrder' /\ TaskInOrder'
<3>1. RowsInOrder /\ TaskInOrder
  BY <2>18 DEF IInv, InOrderKnows, Steady
<3>2. eligible
<4>1. Latest(Eligible) < t
<5>1. CASE Eligible = {}
  BY <2>3, <5>1 DEF Latest, Times
<5>2. CASE Eligible # {}
  BY <2>3, <2>6, <3>1, <5>2, LatestIs DEF RowsInOrder
<5> QED
  BY <5>1, <5>2
<4>2. Latest(Eligible) \in Nat /\ t \in Nat
  BY <2>3, <2>6, LatestIs DEF Times
<4> QED
  BY <2>4, <2>8, <4>1, <4>2
<3>3. \A u \in Journaled' : journal'[u].processed => journal'[u].eligible
  BY <2>5, <3>1, <3>2 DEF RowsInOrder
<3>4. \A u \in Eligible', v \in Pending' : u < v
<4>1. \A v \in Pending \ {t} : t < v
<5>1. \A v \in Pending : t <= v /\ v \in Nat
  BY <2>3, <2>6 DEF Times
<5>2. t \in Nat
  BY <2>3 DEF Times
<5> QED
  BY <5>1, <5>2
<4> QED
  BY <2>5, <3>1, <4>1 DEF RowsInOrder
<3>5. (\A u \in Pending' : Upto(alerts', u)) /\ Disjoint(alerts')
<4>1. \A u \in Pending' : Upto(alerts, u)
  BY <2>5, <3>1 DEF RowsInOrder
<4>2. Disjoint(alerts)
  BY <3>1 DEF RowsInOrder
<4> QED
  BY <2>2, <4>1, <4>2, Zenon
<3>6. SpeedingJustified'
<4>1. ASSUME NEW c \in DOMAIN alerts.receipts["SPEEDING"]
      PROVE  \E s \in Chosen' :
        LET samples == {u \in Journaled' : alerts.receipts["SPEEDING"][c].streak <= u /\ u <= c}
        IN  /\ s.speedOn /\ s.fence /\ Cardinality(samples) >= s.confirm
            /\ \A u \in samples : journal'[u].kph > Context(s, journal'[u].pos).threshold
<5> DEFINE samples == {u \in Journaled : alerts.receipts["SPEEDING"][c].streak <= u /\ u <= c}
<5>1. PICK s \in Chosen : /\ s.speedOn /\ s.fence /\ Cardinality(samples) >= s.confirm
                          /\ \A u \in samples : journal[u].kph > Context(s, journal[u].pos).threshold
  BY <3>1 DEF RowsInOrder, SpeedingJustified
<5>2. s \in Chosen'
  BY DEF Steady
<5>3. \A u \in samples : journal'[u].kph > Context(s, journal'[u].pos).threshold
  BY <2>7, <5>1
<5> QED
  BY <2>5, <5>1, <5>2, <5>3
<4> QED
  BY <2>2, <4>1 DEF SpeedingJustified
<3>7. TaskInOrder'
<4>1. CASE task' = Idle
  BY <4>1, IdleIs DEF TaskInOrder
<4>2. CASE task' # Idle
  BY <1>1, <2>5, <2>14, <3>1, <4>2 DEF TaskInOrder
<4> QED
  BY <4>1, <4>2
<3> QED
  BY <3>3, <3>4, <3>5, <3>6, <3>7 DEF RowsInOrder
<2> QED
  BY <2>10, <2>11, <2>12, <2>15, <2>16, <2>17, <2>18 DEF IInv, Types, InOrderKnows
<1> QED
  BY <1>2, <1>3
-----------------------------------------------------------------------------
(* Failures, restarts and settings changes.                                 *)

LEMMA FailKeeps ==
    ASSUME IInv, Fail \/ Restart, WorldTyped', Steady
    PROVE  IInv'
<1>1. Abandon /\ UNCHANGED durable
  BY DEF Fail, Restart
<1> QED
  BY <1>1, Abandoned

LEMMA LoseInsertAnswerKeeps ==
    ASSUME IInv, LoseInsertAnswer, WorldTyped', Steady
    PROVE  IInv'
<1>1. /\ task.pc = "drain" /\ task' = Idle
      /\ UNCHANGED <<durable, memory, journal, alerts>>
  BY DEF LoseInsertAnswer, durable
<1>2. Eligible' = Eligible /\ LatestEligible' = LatestEligible
  BY <1>1, SameRows
<1>3. task'.pc = "idle" /\ task'.rows = {} /\ task'.speeding.streak = 0
  BY <1>1, IdleIs
<1>4. WorkTyped'
  BY <1>1, <1>3, IdleIs DEF WorkTyped, Pcs, IInv, Types
<1>5. TaskKnows'
  BY <1>3 DEF TaskKnows
<1>6. MemoryKnows'
  BY <1>1, <1>2, <1>3, CalmMemory
<1>7. TaskInOrder'
  BY <1>3 DEF TaskInOrder
<1> QED
  BY <1>1, <1>4, <1>5, <1>6, <1>7, DurableKept DEF IInv, Types, InOrderKnows

\* A step of the settings alone.
LEMMA WorkKept ==
    ASSUME IInv, UNCHANGED <<durable, memory, task>>, WorldTyped', Steady
    PROVE  IInv'
<1>1. UNCHANGED <<durable, journal, alerts, checkpoint, memory, task>>
  BY DEF durable
<1>2. Journaled' = Journaled /\ Pending' = Pending /\ Eligible' = Eligible /\ LatestEligible' = LatestEligible
  BY <1>1, SameRows
<1>3. Current' = Current /\ MidRow' = MidRow
  BY <1>1 DEF Current, MidRow
<1>4. WorkTyped'
  BY <1>1 DEF IInv, Types, WorkTyped
<1>5. TaskKnows'
  BY <1>1, <1>2 DEF IInv, TaskKnows
<1>6. Counted' = Counted /\ Unwritten(memory.speeding)' = Unwritten(memory.speeding)
  BY <1>1, <1>2, <1>3 DEF Counted, ReplayEligible, Unwritten
<1>7. MemoryKnows'
  BY <1>1, <1>2, <1>3, <1>6 DEF IInv, MemoryKnows
<1>8. ~env'.late => TaskInOrder'
  BY <1>1, <1>2, <1>3 DEF IInv, InOrderKnows, TaskInOrder, Steady
<1> QED
  BY <1>1, <1>4, <1>5, <1>7, <1>8, DurableKept DEF IInv, Types, InOrderKnows

LEMMA CommitSettingsKeeps ==
    ASSUME IInv, NEW s \in Policies, CommitSettings(s), WorldTyped', Steady
    PROVE  IInv'
<1>1. UNCHANGED <<durable, memory, task>>
  BY DEF CommitSettings
<1> QED
  BY <1>1, WorkKept

\* A notified detector forgets its streak, and with it a confirmation that is
\* about to be written: the write still registers it.
LEMMA NotifySettingsKeeps ==
    ASSUME IInv, NotifySettings, WorldTyped', Steady
    PROVE  IInv'
<1>1. /\ UNCHANGED <<durable, journal, alerts, task>>
      /\ memory' = [memory EXCEPT
                      !.speeding = IF "speeding" \in changed THEN Invalidated(@) ELSE @,
                      !.inactivity = IF "inactivity" \in changed THEN NoInactivity ELSE @]
  BY DEF NotifySettings, durable
<1>2. Journaled' = Journaled /\ Pending' = Pending /\ Eligible' = Eligible /\ LatestEligible' = LatestEligible
  BY <1>1, SameRows
<1>3. WorkTyped /\ MemoryKnows
  BY DEF IInv, Types
<1>4. /\ memory'.ready = memory.ready /\ memory'.frontier = memory.frontier
      /\ memory'.speeding \in {memory.speeding, Invalidated(memory.speeding)}
      /\ DOMAIN memory' = DOMAIN memory
  BY <1>1, <1>3 DEF WorkTyped
<1>5. WorkTyped'
  BY <1>1, <1>3, <1>4 DEF WorkTyped
<1>6. TaskKnows'
  BY <1>1, <1>2 DEF IInv, TaskKnows
<1>7. Current' = Current /\ MidRow' = MidRow
  BY <1>1 DEF Current, MidRow
<1>8. Counted' = Counted
  BY <1>2, <1>4, <1>7 DEF Counted, ReplayEligible
<1>9. MemoryKnows'
<2>1. CASE memory'.speeding = memory.speeding
<3>1. Unwritten(memory.speeding)' = Unwritten(memory.speeding)
  BY <1>1, <1>7, <2>1 DEF Unwritten
<3> QED
  BY <1>1, <1>2, <1>3, <1>4, <1>7, <1>8, <2>1, <3>1 DEF MemoryKnows
<2>2. CASE memory'.speeding = Invalidated(memory.speeding)
<3>1. task.pc = "restore" => memory'.speeding = NoSpeeding
<4>1. Invalidated(NoSpeeding) = NoSpeeding
  BY DEF Invalidated, NoSpeeding, Blank
<4> QED
  BY <1>3, <2>2, <4>1 DEF MemoryKnows
<3>2. ASSUME memory.ready \/ task.pc = "prime"
      PROVE  TrueOf(memory'.speeding, Counted', journal') /\ Registered(memory'.speeding, alerts')
<4>1. TrueOf(memory.speeding, Counted, journal)
  BY <1>3, <3>2 DEF MemoryKnows
<4>2. TrueOf(Invalidated(memory.speeding), Counted, journal) /\ ~Invalidated(memory.speeding).confirmed
  BY <4>1, InvalidatedTrue
<4>3. Registered(Invalidated(memory.speeding), alerts)
  BY <4>2, Zenon DEF Registered
<4> QED
  BY <1>1, <1>8, <2>2, <4>2, <4>3, Zenon
<3> QED
  BY <1>1, <1>2, <1>3, <1>4, <1>7, <3>1, <3>2 DEF MemoryKnows
<2> QED
  BY <1>4, <2>1, <2>2
<1>10. ~env'.late => TaskInOrder'
  BY <1>1, <1>2, <1>7 DEF IInv, InOrderKnows, TaskInOrder, Steady
<1> QED
  BY <1>1, <1>5, <1>6, <1>9, <1>10, DurableKept DEF IInv, Types, InOrderKnows
-----------------------------------------------------------------------------
LEMMA InitHolds == Init => IInv
<1> SUFFICES ASSUME Init PROVE IInv
  OBVIOUS
<1>1. /\ env \in Environments /\ journal = <<>> /\ checkpoint = NoSpeeding /\ alerts = NoAlerts
      /\ settings = env.policy /\ changed = {} /\ memory = Forgotten /\ task = Idle
  BY DEF Init
<1>2. Journaled = {} /\ Pending = {} /\ Eligible = {}
  BY <1>1 DEF Journaled, Pending, Eligible
<1>3. WorldTyped
<2>1. env \in Environment
  BY <1>1, IngestionAssumption DEF Environment, Times
<2> QED
  BY <1>1, <2>1 DEF WorldTyped, Chosen
<1>4. RowsTyped
  BY <1>2 DEF RowsTyped
<1>5. /\ Shaped(alerts)
      /\ \A k \in AlertTypes : DOMAIN alerts.events[k] = {} /\ DOMAIN alerts.receipts[k] = {}
  BY <1>1 DEF NoAlerts, Shaped
<1>6. AlertsTyped(alerts) /\ AlertsOf(alerts, Journaled) /\ AlertsAgree(alerts)
  BY <1>5 DEF AlertsTyped, AlertsOf, AlertsAgree
<1>7. /\ DOMAIN memory = {"ready", "frontier", "speeding", "inactivity"}
      /\ memory.ready = FALSE /\ memory.frontier = 0
  BY <1>1 DEF Forgotten
<1>8. WorkTyped
<2>1. memory.ready \in BOOLEAN
  BY <1>7, Zenon
<2> QED
  BY <1>1, <1>7, <2>1, IdleIs DEF WorkTyped, Pcs
<1>9. TaskKnows /\ TaskInOrder
  BY <1>1, IdleIs DEF TaskKnows, TaskInOrder
<1>10. MemoryKnows
  BY <1>1, <1>7, IdleIs DEF MemoryKnows, MidRow
<1>11. CheckpointKnows
<2>1. /\ checkpoint.last = 0 /\ checkpoint.count = 0 /\ checkpoint.streak = 0
      /\ checkpoint.confirmed = FALSE
  BY <1>1 DEF NoSpeeding, Blank
<2>2. TrueOf(checkpoint, Eligible, journal)
  BY <1>2, <2>1, BlankTrue DEF Latest
<2>3. Registered(checkpoint, alerts)
  BY <2>1, Zenon DEF Registered
<2> QED
  BY <2>2, <2>3 DEF CheckpointKnows
<1>12. RowsInOrder
<2>1. "SPEEDING" \in AlertTypes
  BY TwoKinds
<2> QED
  BY <1>2, <1>5, <2>1 DEF RowsInOrder, Disjoint, SpeedingJustified
<1> QED
  BY <1>3, <1>4, <1>6, <1>8, <1>9, <1>10, <1>11, <1>12 DEF IInv, Types, InOrderKnows

LEMMA StepKeeps == IInv /\ [Next]_vars => IInv'
<1> SUFFICES ASSUME IInv, [Next]_vars PROVE IInv'
  OBVIOUS
<1>1. WorldTyped' /\ Steady
  BY WorldStep DEF IInv, Types
<1>2. ASSUME NEW t \in Times, Redeliver(t) PROVE IInv'
  BY <1>1, <1>2, RedeliverKeeps
<1>3. ASSUME NEW t \in Times, NEW p \in env.payloads, Deliver(t, p) PROVE IInv'
  BY <1>1, <1>3, DeliverKeeps
<1>4. CASE Drain
  BY <1>1, <1>4, DrainKeeps
<1>5. CASE Bootstrap
  BY <1>1, <1>5, BootstrapKeeps
<1>6. CASE Restore
  BY <1>1, <1>6, RestoreKeeps
<1>7. CASE Prime
  BY <1>1, <1>7, PrimeKeeps
<1>8. CASE EvaluateSpeeding
  BY <1>1, <1>8, EvaluateSpeedingKeeps
<1>9. CASE EvaluateInactivity
  BY <1>1, <1>9, EvaluateInactivityKeeps
<1>10. CASE WriteSpeeding
  BY <1>1, <1>10, WriteSpeedingKeeps
<1>11. CASE WriteInactivity
  BY <1>1, <1>11, WriteInactivityKeeps
<1>12. CASE Complete
  BY <1>1, <1>12, CompleteKeeps
<1>13. CASE Fail \/ Restart
  BY <1>1, <1>13, FailKeeps
<1>14. CASE LoseInsertAnswer
  BY <1>1, <1>14, LoseInsertAnswerKeeps
<1>15. ASSUME NEW s \in Policies, CommitSettings(s) PROVE IInv'
  BY <1>1, <1>15, CommitSettingsKeeps
<1>16. CASE NotifySettings
  BY <1>1, <1>16, NotifySettingsKeeps
<1>17. CASE UNCHANGED vars
<2>1. UNCHANGED <<durable, memory, task>>
  BY <1>17 DEF vars, durable
<2> QED
  BY <1>1, <2>1, WorkKept
<1> QED
  BY <1>2, <1>3, <1>4, <1>5, <1>6, <1>7, <1>8, <1>9, <1>10, <1>11, <1>12, <1>13, <1>14, <1>15,
     <1>16, <1>17 DEF Next, Handler

\* The inductive invariant holds in every reachable state: through late fixes,
\* failed and lost database calls, restarts and settings changes.
THEOREM Invariance == Spec => []IInv
<1>1. Init => IInv
  BY InitHolds
<1>2. IInv /\ [Next]_vars => IInv'
  BY StepKeeps
<1> QED
  BY <1>1, <1>2, PTL DEF Spec
-----------------------------------------------------------------------------
(* What follows from it.                                                    *)

LEMMA TypesSuffice == IInv => TypeOK
<1> SUFFICES ASSUME IInv PROVE TypeOK
  OBVIOUS
<1>1. WorldTyped /\ RowsTyped /\ AlertsOf(alerts, Journaled) /\ WorkTyped /\ TaskKnows
      /\ AlertsAgree(alerts)
  BY DEF IInv, Types
<1>2. Eligible \subseteq Times /\ LatestEligible = Latest(Eligible)
  BY <1>1, RowSets
<1>3. Latest(Eligible) \in Times \union {0}
  BY <1>2, LatestIs
<1>4. checkpoint.last \in Times \cup {0}
  BY <1>3 DEF IInv, CheckpointKnows, TrueOf
<1>5. memory.frontier \in Times \cup {0}
  BY <1>2, <1>3 DEF IInv, MemoryKnows
<1>6. settings \in Policies /\ changed \subseteq {"speeding", "inactivity"}
  BY <1>1 DEF WorldTyped, Chosen, Environment
<1>7. task.rows \subseteq Journaled /\ (task.pc \notin {"idle", "drain"} => task.rows # {})
<2>1. CASE task.pc \in {"idle", "drain"}
  BY <1>1, <2>1 DEF TaskKnows
<2>2. CASE task.pc \notin {"idle", "drain"}
<3>1. Current \in task.rows /\ task.rows = {t \in Pending : t <= task.target}
  BY <1>1, <2>2, CurrentIs
<3> QED
  BY <3>1 DEF Pending
<2> QED
  BY <2>1, <2>2
<1>8. /\ Journaled \subseteq Times
      /\ \A t \in Journaled :
           /\ [kph |-> journal[t].kph, pos |-> journal[t].pos] \in env.payloads
           /\ journal[t].eligible => journal[t].processed
  BY <1>1 DEF RowsTyped
<1>9. \A k \in AlertTypes : /\ DOMAIN alerts.events[k] \subseteq DOMAIN alerts.receipts[k]
                            /\ DOMAIN alerts.receipts[k] \subseteq Journaled
  BY <1>1 DEF AlertsOf, AlertsAgree
<1>10. task.pc \in {"idle", "drain", "bootstrap", "restore", "prime", "detectSpeeding",
                    "detectInactivity", "writeSpeeding", "writeInactivity", "complete"}
  BY <1>1 DEF WorkTyped, Pcs
<1> QED
  BY <1>4, <1>5, <1>6, <1>7, <1>8, <1>9, <1>10, Zenon DEF TypeOK

\* The state of the pipeline keeps its types.
THEOREM TypeCorrect == Spec => []TypeOK
  BY Invariance, TypesSuffice, PTL

\* A checkpoint stands at the newest row that counts for a replay, names a
\* confirmation that is registered, and its streak is the one the rows have:
\* commitObservation stores it in the transaction of the row's mark, and
\* restore, the settings notification and a failed row never blur it.
THEOREM CheckpointTrue == Spec => []CheckpointIsTrue
<1>1. IInv => CheckpointIsTrue
<2> SUFFICES ASSUME IInv PROVE CheckpointIsTrue
  OBVIOUS
<2>1. TrueOf(checkpoint, Eligible, journal) /\ Registered(checkpoint, alerts) /\ RowsTyped
  BY DEF IInv, CheckpointKnows, Types
<2>2. CheckpointAtFrontier
  BY <2>1, RowSets DEF CheckpointAtFrontier, TrueOf
<2>3. ConfirmedIsRegistered
  BY <2>1 DEF ConfirmedIsRegistered, Registered
<2>4. StreakIsContiguous
  BY <2>1 DEF StreakIsContiguous, TrueOf
<2> QED
  BY <2>2, <2>3, <2>4 DEF CheckpointIsTrue
<1> QED
  BY <1>1, Invariance, PTL

\* A receipt stays within the event it belongs to whatever the order of the
\* fixes, and with fixes in order the events of a kind never overlap.
THEOREM EventsSound == Spec => []EventsAreSound
<1>1. IInv => EventsAreSound
<2> SUFFICES ASSUME IInv PROVE EventsAreSound
  OBVIOUS
<2>1. ReceiptWithinEvent
  BY TwoKinds DEF ReceiptWithinEvent, IInv, AlertsAgree
<2>2. EpisodesDisjoint
  BY DEF EpisodesDisjoint, IInv, InOrderKnows, RowsInOrder, Disjoint
<2> QED
  BY <2>1, <2>2 DEF EventsAreSound
<1> QED
  BY <1>1, Invariance, PTL

\* With fixes in order, every confirmed speeding is one the journal's samples
\* justify under a policy that was chosen, also when the settings change
\* between the detection, its write and the rebuilding of the detector.
THEOREM SpeedingIsJustified == Spec => [](~env.late => SpeedingJustified)
<1>1. IInv => (~env.late => SpeedingJustified)
  BY DEF IInv, InOrderKnows, RowsInOrder
<1> QED
  BY <1>1, Invariance, PTL
-----------------------------------------------------------------------------
(* What a step may do.                                                      *)

\* The journal loses no row, and only the row in progress is completed.
LEMMA RowsStep ==
    ASSUME IInv, [Next]_vars
    PROVE  \/ UNCHANGED journal
           \/ \E t \in Times, p \in env.payloads : t \notin Journaled /\ journal' = Put(journal, t, Row(p))
           \/ /\ task.pc = "complete"
              /\ journal' = [journal EXCEPT ![Current].processed = TRUE,
                                            ![Current].eligible = ReplayEligible(Current)]
<1>1. CASE \E t \in Times : Redeliver(t) \/ \E p \in env.payloads : Deliver(t, p)
  BY <1>1 DEF Redeliver, Deliver, durable
<1>2. CASE Complete
  BY <1>2 DEF Complete
<1>3. CASE Drain \/ Bootstrap \/ Restore \/ Prime \/ EvaluateSpeeding \/ EvaluateInactivity
           \/ WriteSpeeding \/ WriteInactivity
  BY <1>3 DEF Drain, Bootstrap, Restore, Prime, EvaluateSpeeding, EvaluateInactivity,
              WriteSpeeding, WriteInactivity, durable
<1>4. CASE Fail \/ LoseInsertAnswer \/ Restart \/ NotifySettings \/ \E s \in Policies : CommitSettings(s)
  BY <1>4 DEF Fail, LoseInsertAnswer, Restart, NotifySettings, CommitSettings, durable
<1>5. CASE UNCHANGED vars
  BY <1>5 DEF vars
<1> QED
  BY <1>1, <1>2, <1>3, <1>4, <1>5 DEF Next, Handler

LEMMA OldestFirst ==
    ASSUME IInv, [Next]_vars, NEW t \in Journaled', journal'[t].processed,
           NEW u \in Journaled', u < t, t \in Pending
    PROVE  journal'[u].processed
<1>1. RowsTyped /\ TaskKnows
  BY DEF IInv, Types
<1>2. t \in Journaled /\ ~journal[t].processed
  BY DEF Pending
<1>3. CASE UNCHANGED journal
  BY <1>2, <1>3
<1>4. ASSUME NEW v \in Times, NEW p \in env.payloads, v \notin Journaled, journal' = Put(journal, v, Row(p))
      PROVE  FALSE
  BY <1>1, <1>2, <1>4, NewRow
<1>5. CASE /\ task.pc = "complete"
           /\ journal' = [journal EXCEPT ![Current].processed = TRUE,
                                         ![Current].eligible = ReplayEligible(Current)]
<2>1. /\ Current \in Pending /\ Current \in Times /\ \A v \in Pending : Current <= v
  BY <1>1, <1>5, CurrentIs
<2>2. ReplayEligible(Current) \in BOOLEAN
  BY DEF ReplayEligible
<2> DEFINE c == Current
           eligible == ReplayEligible(Current)
<2>3. /\ Journaled' = Journaled
      /\ \A v \in Journaled : v # c => journal'[v] = journal[v]
  BY <1>1, <1>5, <2>1, <2>2, RowDone
<2>4. t = c
  BY <1>2, <2>3
<2>5. u \in Journaled /\ u # c /\ u \notin Pending
<3>1. u \in Journaled
  BY <2>3
<3>2. Journaled \subseteq Times
  BY <1>1 DEF RowsTyped
<3>3. u \in Nat /\ c \in Nat
  BY <2>1, <3>1, <3>2, TimesAreNat
<3> HIDE DEF c
<3>4. \A v \in Pending : c <= v
  BY <2>1 DEF c
<3> QED
  BY <2>4, <3>1, <3>3, <3>4
<2> QED
  BY <2>3, <2>5 DEF Pending
<1> QED
  BY <1>3, <1>4, <1>5, RowsStep

\* No row is completed before an older one that is pending: a retry never
\* applies a fix to detectors that have not seen the fixes before it.
THEOREM DrainsInOrder == Spec => DrainInOrder
<1>1. IInv /\ [Next]_vars =>
        [\A t \in Journaled' : journal'[t].processed =>
            \A u \in Journaled' : u < t /\ t \in Pending => journal'[u].processed]_vars
  BY OldestFirst
<1> QED
  BY <1>1, Invariance, PTL DEF Spec, DrainInOrder

LEMMA EventsStep ==
    ASSUME IInv, [Next]_vars, NEW k \in AlertTypes, NEW e \in DOMAIN alerts.events[k]
    PROVE  /\ e \in DOMAIN alerts'.events[k]
           /\ alerts.events[k][e].last <= alerts'.events[k][e].last
           /\ alerts.events[k][e].status = "RESOLVED" => alerts'.events[k][e] = alerts.events[k][e]
<1>1. RowsTyped /\ TaskKnows /\ AlertsTyped(alerts) /\ AlertsAgree(alerts) /\ task.speeding.streak \in Nat
  BY DEF IInv, Types, WorkTyped
<1>2. CASE UNCHANGED alerts
<2>1. alerts.events[k][e].last \in Nat
  BY <1>1 DEF AlertsTyped, Event, Times
<2> QED
  BY <1>2, <2>1
<1>3. CASE WriteSpeeding
<2> DEFINE r == Process(alerts, "SPEEDING", task.speeding.status, Current,
                        task.speeding.streak, task.speeding.confirmedAt)
<2>1. task.pc = "writeSpeeding" /\ IF r.ok THEN alerts' = r.alerts ELSE UNCHANGED alerts
  BY <1>3 DEF WriteSpeeding
<2>2. CASE r.ok
<3>1. Current \in Times /\ "SPEEDING" \in AlertTypes
  BY <1>1, <2>1, CurrentIs, TwoKinds
<3>2. Effect(alerts, alerts', "SPEEDING", Current, task.speeding.streak)
  BY <1>1, <2>1, <2>2, <3>1, ProcessEffect
<3> HIDE DEF r
<3> QED
  BY <1>1, <3>1, <3>2, EffectAdvances
<2> HIDE DEF r
<2> QED
  BY <1>2, <2>1, <2>2
<1>4. CASE WriteInactivity
<2> DEFINE r == Process(alerts, "INACTIVITY", task.inactivity, Current, 0, 0)
<2>1. task.pc = "writeInactivity" /\ IF r.ok THEN alerts' = r.alerts ELSE UNCHANGED alerts
  BY <1>4 DEF WriteInactivity
<2>2. CASE r.ok
<3>1. Current \in Times /\ "INACTIVITY" \in AlertTypes /\ 0 \in Nat
  BY <1>1, <2>1, CurrentIs, TwoKinds
<3>2. Effect(alerts, alerts', "INACTIVITY", Current, 0)
  BY <1>1, <2>1, <2>2, <3>1, ProcessEffect
<3> HIDE DEF r
<3> QED
  BY <1>1, <3>1, <3>2, EffectAdvances
<2> HIDE DEF r
<2> QED
  BY <1>2, <2>1, <2>2
<1>5. [Next]_vars => UNCHANGED alerts \/ WriteSpeeding \/ WriteInactivity
<2>1. CASE Handler
  BY <2>1 DEF Handler, Drain, Bootstrap, Restore, Prime, EvaluateSpeeding, EvaluateInactivity,
              Complete, durable
<2>2. CASE \E t \in Times : Redeliver(t) \/ \E p \in env.payloads : Deliver(t, p)
  BY <2>2 DEF Redeliver, Deliver, durable
<2>3. CASE Fail \/ LoseInsertAnswer \/ Restart \/ NotifySettings \/ \E s \in Policies : CommitSettings(s)
  BY <2>3 DEF Fail, LoseInsertAnswer, Restart, NotifySettings, CommitSettings, durable
<2>4. CASE UNCHANGED vars
  BY <2>4 DEF vars
<2> QED
  BY <2>1, <2>2, <2>3, <2>4 DEF Next
<1> QED
  BY <1>2, <1>3, <1>4, <1>5

\* An event never moves back in time, and a resolved one never changes again,
\* whatever a retry, a late fix or a rebuilt detector writes.
THEOREM EventsAdvance == Spec => EventsOnlyAdvance
<1>1. IInv /\ [Next]_vars =>
        [\A k \in AlertTypes : \A e \in DOMAIN alerts.events[k] :
          /\ e \in DOMAIN alerts'.events[k]
          /\ alerts.events[k][e].last <= alerts'.events[k][e].last
          /\ alerts.events[k][e].status = "RESOLVED" =>
                alerts'.events[k][e] = alerts.events[k][e]]_vars
  BY EventsStep
<1> QED
  BY <1>1, Invariance, PTL DEF Spec, EventsOnlyAdvance
-----------------------------------------------------------------------------
(* Runs over fixes in time order.  A set of times that begins with 0 and    *)
(* goes on as long as it can holds all times.                               *)

LEMMA Climb ==
    ASSUME NEW S, NEW m \in Nat, NEW n \in Nat, m \in S,
           \A t \in m..n : t \in S /\ t < n => t + 1 \in S
    PROVE  m..n \subseteq S
<1> DEFINE M == {t \in m..n : t \notin S}
<1> SUFFICES ASSUME M # {} PROVE FALSE
  OBVIOUS
<1>1. M \subseteq Nat
  OBVIOUS
<1>2. PICK t \in M : \A u \in M : t <= u
  BY <1>1, LeastTime
<1>3. t \in m..n /\ t \notin S /\ t # m
  BY <1>2
<1>4. t - 1 \in m..n /\ t - 1 \notin M /\ t - 1 < n
  BY <1>2, <1>3
<1>5. t - 1 \in S
  BY <1>4
<1>6. (t - 1) + 1 \in S
  BY <1>4, <1>5
<1> QED
  BY <1>3, <1>6

\* The reference's run, a time at a time.
RunsOverReference(run, fixes, s, n) ==
    run = [t \in 0..n |->
             IF t = 0 THEN NothingSeen
             ELSE IF t \in DOMAIN fixes THEN ReferenceStep(run[t-1], fixes[t], s)
             ELSE run[t-1]]

LEMMA ReferenceRuns ==
    ASSUME NEW fixes, NEW s
    PROVE  \E run : RunsOverReference(run, fixes, s, MaxTime) /\ Reference(fixes, s) = run[MaxTime]
<1> DEFINE Step(run, t) == IF t = 0 THEN NothingSeen
                           ELSE IF t \in DOMAIN fixes THEN ReferenceStep(run[t-1], fixes[t], s)
                           ELSE run[t-1]
           S == {n \in Nat : \E run : RunsOverReference(run, fixes, s, n)}
<1>1. 0 \in S
<2>1. RunsOverReference([t \in 0..0 |-> NothingSeen], fixes, s, 0)
  BY DEF RunsOverReference
<2> QED
  BY <2>1
<1>2. ASSUME NEW n \in 0..MaxTime, n \in S, n < MaxTime PROVE n + 1 \in S
<2>1. PICK run : RunsOverReference(run, fixes, s, n)
  BY <1>2
<2> DEFINE next == [t \in 0..(n+1) |-> Step(run, t)]
<2>2. \A t \in 0..n : run[t] = Step(run, t)
  BY <2>1 DEF RunsOverReference
<2>3. \A t \in 0..n : next[t] = run[t]
  BY <2>2
<2>4. \A t \in 0..(n+1) : t # 0 => t - 1 \in 0..n
  OBVIOUS
<2>5. \A t \in 0..(n+1) : Step(run, t) = Step(next, t)
  BY <2>3, <2>4
<2>6. next = [t \in 0..(n+1) |-> Step(next, t)]
  BY <2>5
<2>7. RunsOverReference(next, fixes, s, n + 1)
  BY <2>6 DEF RunsOverReference
<2> QED
  BY <2>7, <1>2
<1>3. MaxTime \in Nat
  BY IngestionAssumption
<1>4. MaxTime \in S
<2> HIDE DEF S
<2> QED
  BY <1>1, <1>2, <1>3, Climb
<1>5. \E run : RunsOverReference(run, fixes, s, MaxTime)
  BY <1>4
<1> DEFINE run == CHOOSE run : RunsOverReference(run, fixes, s, MaxTime)
<1>6. RunsOverReference(run, fixes, s, MaxTime)
  BY <1>5
<1>7. Reference(fixes, s) = run[MaxTime]
  BY DEF Reference, RunsOverReference
<1> QED
  BY <1>6, <1>7

LEMMA ReferenceNext ==
    ASSUME NEW fixes, NEW run, NEW s, RunsOverReference(run, fixes, s, MaxTime), NEW t \in Nat, t + 1 \in 0..MaxTime
    PROVE  /\ t + 1 \in DOMAIN fixes => run[t+1] = ReferenceStep(run[t], fixes[t+1], s)
           /\ t + 1 \notin DOMAIN fixes => run[t+1] = run[t]
<1>1. (t + 1) - 1 = t /\ t + 1 # 0
  OBVIOUS
<1>2. \A u \in 0..MaxTime : u # 0 =>
         /\ u \in DOMAIN fixes => run[u] = ReferenceStep(run[u-1], fixes[u], s)
         /\ u \notin DOMAIN fixes => run[u] = run[u-1]
  BY DEF RunsOverReference
<1> QED
  BY <1>1, <1>2, ZenonT(30)

LEMMA ReferenceWaits ==
    ASSUME NEW fixes, NEW run, NEW s, RunsOverReference(run, fixes, s, MaxTime),
           NEW a \in 0..MaxTime, NEW b \in a..MaxTime, \A t \in (a+1)..b : t \notin DOMAIN fixes
    PROVE  run[b] = run[a]
<1>0. MaxTime \in Nat
  BY IngestionAssumption
<1> DEFINE S == {t \in a..b : run[t] = run[a]}
<1>1. a \in S
  OBVIOUS
<1>2. \A t \in a..b : t \in S /\ t < b => t + 1 \in S
<2> SUFFICES ASSUME NEW t \in a..b, t \in S, t < b PROVE t + 1 \in S
  OBVIOUS
<2>1. t + 1 \in (a+1)..b /\ t + 1 \in 0..MaxTime /\ (t + 1) - 1 = t /\ t + 1 # 0 /\ t \in Nat
  BY <1>0
<2>2. t + 1 \notin DOMAIN fixes
  BY <2>1
<2>3. run[t+1] = run[t]
  BY <2>1, <2>2, ReferenceNext
<2>4. run[t+1] = run[a]
  BY <2>3
<2> QED
  BY <2>1, <2>4
<1>3. a..b \subseteq S
<2>1. a \in Nat /\ b \in Nat
  BY <1>0
<2> HIDE DEF S
<2> QED
  BY <1>1, <1>2, <2>1, Climb, Zenon
<1> QED
  BY <1>3

LEMMA ReferenceAgrees ==
    ASSUME NEW f, NEW g, NEW run, NEW other, NEW s,
           RunsOverReference(run, f, s, MaxTime), RunsOverReference(other, g, s, MaxTime), NEW b \in 0..MaxTime,
           \A t \in 1..b : (t \in DOMAIN f <=> t \in DOMAIN g) /\ (t \in DOMAIN f => f[t] = g[t])
    PROVE  run[b] = other[b]
<1>0. MaxTime \in Nat
  BY IngestionAssumption
<1> DEFINE S == {t \in 0..b : run[t] = other[t]}
<1>1. 0 \in S
  BY <1>0 DEF RunsOverReference
<1>2. \A t \in 0..b : t \in S /\ t < b => t + 1 \in S
<2> SUFFICES ASSUME NEW t \in 0..b, t \in S, t < b PROVE t + 1 \in S
  OBVIOUS
<2>1. t + 1 \in 1..b /\ t + 1 \in 0..MaxTime /\ (t + 1) - 1 = t /\ t + 1 # 0 /\ t \in Nat
  BY <1>0
<2>2. run[t] = other[t]
  OBVIOUS
<2> SUFFICES run[t+1] = other[t+1]
  BY <2>1
<2> HIDE DEF S
<2>3. CASE t + 1 \in DOMAIN f
<3>1. t + 1 \in DOMAIN g /\ f[t+1] = g[t+1]
  BY <2>1, <2>3
<3>2. run[t+1] = ReferenceStep(run[t], f[t+1], s)
  BY <2>1, <2>3, ReferenceNext
<3>3. other[t+1] = ReferenceStep(other[t], g[t+1], s)
  BY <2>1, <3>1, ReferenceNext
<3> QED
  BY <2>2, <3>1, <3>2, <3>3
<2>4. CASE t + 1 \notin DOMAIN f
<3>1. t + 1 \notin DOMAIN g
  BY <2>1, <2>4
<3>2. run[t+1] = run[t]
  BY <2>1, <2>4, ReferenceNext
<3>3. other[t+1] = other[t]
  BY <2>1, <3>1, ReferenceNext
<3> QED
  BY <2>2, <3>2, <3>3
<2> QED
  BY <2>3, <2>4
<1>3. 0..b \subseteq S
<2>1. 0 \in Nat /\ b \in Nat
  BY <1>0
<2> HIDE DEF S
<2> QED
  BY <1>1, <1>2, <2>1, Climb, Zenon
<1> QED
  BY <1>3

LEMMA ReferenceAppends ==
    ASSUME NEW f, NEW g, NEW s, NEW c \in Times, DOMAIN f \subseteq Times,
           DOMAIN g = DOMAIN f \union {c}, \A t \in DOMAIN f : t < c /\ g[t] = f[t]
    PROVE  Reference(g, s) = ReferenceStep(Reference(f, s), g[c], s)
<1>0. MaxTime \in Nat /\ c \in 1..MaxTime /\ c - 1 \in 0..MaxTime /\ \A t \in Times : t \in Nat
  BY IngestionAssumption DEF Times
<1>1. PICK run : RunsOverReference(run, f, s, MaxTime) /\ Reference(f, s) = run[MaxTime]
  BY ReferenceRuns
<1>2. PICK other : RunsOverReference(other, g, s, MaxTime) /\ Reference(g, s) = other[MaxTime]
  BY ReferenceRuns
<1>3. \A t \in c..MaxTime : t \notin DOMAIN f
  BY <1>0
<1>4. run[MaxTime] = run[c-1]
<2>1. \A t \in ((c-1)+1)..MaxTime : t \notin DOMAIN f
  BY <1>0, <1>3
<2>2. MaxTime \in (c-1)..MaxTime
  BY <1>0
<2> QED
  BY <1>0, <1>1, <2>1, <2>2, ReferenceWaits
<1>5. other[MaxTime] = other[c]
<2>1. \A t \in (c+1)..MaxTime : t \notin DOMAIN g
  BY <1>0, <1>3
<2>2. MaxTime \in c..MaxTime /\ c \in 0..MaxTime
  BY <1>0
<2> QED
  BY <1>0, <1>2, <2>1, <2>2, ReferenceWaits
<1>6. \A t \in 1..(c-1) : t \in DOMAIN f <=> t \in DOMAIN g
  BY <1>0
<1>7. Reference(f, s) = run[c-1] /\ run[c-1] = other[c-1]
<2>1. \A t \in 1..(c-1) : (t \in DOMAIN f <=> t \in DOMAIN g) /\ (t \in DOMAIN f => f[t] = g[t])
  BY <1>6
<2> QED
  BY <1>0, <1>1, <1>2, <1>4, <2>1, ReferenceAgrees
<1>8. other[c] = ReferenceStep(other[c-1], g[c], s)
  BY <1>0, <1>2 DEF RunsOverReference
<1> QED
  BY <1>1, <1>2, <1>5, <1>7, <1>8

LEMMA ReferenceOfNone ==
    ASSUME NEW fixes, NEW s, DOMAIN fixes = {}
    PROVE  Reference(fixes, s) = NothingSeen
<1>0. MaxTime \in Nat
  BY IngestionAssumption
<1>1. PICK run : RunsOverReference(run, fixes, s, MaxTime) /\ Reference(fixes, s) = run[MaxTime]
  BY ReferenceRuns
<1>2. run[MaxTime] = run[0]
<2>1. \A t \in (0+1)..MaxTime : t \notin DOMAIN fixes
  OBVIOUS
<2>2. MaxTime \in 0..MaxTime /\ 0 \in 0..MaxTime
  BY <1>0
<2> QED
  BY <1>0, <1>1, <2>1, <2>2, ReferenceWaits
<1>3. run[0] = NothingSeen
  BY <1>0, <1>1 DEF RunsOverReference
<1> QED
  BY <1>1, <1>2, <1>3

\* The replay of the inactivity rule.
RunsOverPrimed(run, fixes, st, s, n) ==
    run = [t \in 0..n |->
             IF t = 0 THEN st
             ELSE IF t \in DOMAIN fixes THEN DetectInactivity(run[t-1], fixes[t], s).state
             ELSE run[t-1]]

LEMMA PrimedRuns ==
    ASSUME NEW fixes, NEW st, NEW s
    PROVE  \E run : RunsOverPrimed(run, fixes, st, s, MaxTime) /\ Primed(st, fixes, s) = run[MaxTime]
<1> DEFINE Step(run, t) == IF t = 0 THEN st
                           ELSE IF t \in DOMAIN fixes THEN DetectInactivity(run[t-1], fixes[t], s).state
                           ELSE run[t-1]
           S == {n \in Nat : \E run : RunsOverPrimed(run, fixes, st, s, n)}
<1>1. 0 \in S
<2>1. RunsOverPrimed([t \in 0..0 |-> st], fixes, st, s, 0)
  BY DEF RunsOverPrimed
<2> QED
  BY <2>1
<1>2. ASSUME NEW n \in 0..MaxTime, n \in S, n < MaxTime PROVE n + 1 \in S
<2>1. PICK run : RunsOverPrimed(run, fixes, st, s, n)
  BY <1>2
<2> DEFINE next == [t \in 0..(n+1) |-> Step(run, t)]
<2>2. \A t \in 0..n : run[t] = Step(run, t)
  BY <2>1 DEF RunsOverPrimed
<2>3. \A t \in 0..n : next[t] = run[t]
  BY <2>2
<2>4. \A t \in 0..(n+1) : t # 0 => t - 1 \in 0..n
  OBVIOUS
<2>5. \A t \in 0..(n+1) : Step(run, t) = Step(next, t)
  BY <2>3, <2>4
<2>6. next = [t \in 0..(n+1) |-> Step(next, t)]
  BY <2>5
<2>7. RunsOverPrimed(next, fixes, st, s, n + 1)
  BY <2>6 DEF RunsOverPrimed
<2> QED
  BY <2>7, <1>2
<1>3. MaxTime \in Nat
  BY IngestionAssumption
<1>4. MaxTime \in S
<2> HIDE DEF S
<2> QED
  BY <1>1, <1>2, <1>3, Climb
<1>5. \E run : RunsOverPrimed(run, fixes, st, s, MaxTime)
  BY <1>4
<1> DEFINE run == CHOOSE run : RunsOverPrimed(run, fixes, st, s, MaxTime)
<1>6. RunsOverPrimed(run, fixes, st, s, MaxTime)
  BY <1>5
<1>7. Primed(st, fixes, s) = run[MaxTime]
  BY DEF Primed, RunsOverPrimed
<1> QED
  BY <1>6, <1>7

LEMMA PrimedNext ==
    ASSUME NEW fixes, NEW run, NEW st, NEW s, RunsOverPrimed(run, fixes, st, s, MaxTime), NEW t \in Nat, t + 1 \in 0..MaxTime
    PROVE  /\ t + 1 \in DOMAIN fixes => run[t+1] = DetectInactivity(run[t], fixes[t+1], s).state
           /\ t + 1 \notin DOMAIN fixes => run[t+1] = run[t]
<1>1. (t + 1) - 1 = t /\ t + 1 # 0
  OBVIOUS
<1>2. \A u \in 0..MaxTime : u # 0 =>
         /\ u \in DOMAIN fixes => run[u] = DetectInactivity(run[u-1], fixes[u], s).state
         /\ u \notin DOMAIN fixes => run[u] = run[u-1]
  BY DEF RunsOverPrimed
<1> QED
  BY <1>1, <1>2, ZenonT(30)

LEMMA PrimedWaits ==
    ASSUME NEW fixes, NEW run, NEW st, NEW s, RunsOverPrimed(run, fixes, st, s, MaxTime),
           NEW a \in 0..MaxTime, NEW b \in a..MaxTime, \A t \in (a+1)..b : t \notin DOMAIN fixes
    PROVE  run[b] = run[a]
<1>0. MaxTime \in Nat
  BY IngestionAssumption
<1> DEFINE S == {t \in a..b : run[t] = run[a]}
<1>1. a \in S
  OBVIOUS
<1>2. \A t \in a..b : t \in S /\ t < b => t + 1 \in S
<2> SUFFICES ASSUME NEW t \in a..b, t \in S, t < b PROVE t + 1 \in S
  OBVIOUS
<2>1. t + 1 \in (a+1)..b /\ t + 1 \in 0..MaxTime /\ (t + 1) - 1 = t /\ t + 1 # 0 /\ t \in Nat
  BY <1>0
<2>2. t + 1 \notin DOMAIN fixes
  BY <2>1
<2>3. run[t+1] = run[t]
  BY <2>1, <2>2, PrimedNext
<2>4. run[t+1] = run[a]
  BY <2>3
<2> QED
  BY <2>1, <2>4
<1>3. a..b \subseteq S
<2>1. a \in Nat /\ b \in Nat
  BY <1>0
<2> HIDE DEF S
<2> QED
  BY <1>1, <1>2, <2>1, Climb, Zenon
<1> QED
  BY <1>3

\* The fixes as a sequence.
RunsOverTrack(run, fixes, n) ==
    run = [t \in 0..n |->
             IF t = 0 THEN <<>>
             ELSE IF t \in DOMAIN fixes THEN Extended(run[t-1], t, fixes[t])
             ELSE run[t-1]]

LEMMA TrackRuns ==
    ASSUME NEW fixes
    PROVE  \E run : RunsOverTrack(run, fixes, MaxTime) /\ \A at : Track(fixes, at) = run[at]
<1> DEFINE Step(run, t) == IF t = 0 THEN <<>>
                           ELSE IF t \in DOMAIN fixes THEN Extended(run[t-1], t, fixes[t])
                           ELSE run[t-1]
           S == {n \in Nat : \E run : RunsOverTrack(run, fixes, n)}
<1>1. 0 \in S
<2>1. RunsOverTrack([t \in 0..0 |-> <<>>], fixes, 0)
  BY DEF RunsOverTrack
<2> QED
  BY <2>1
<1>2. ASSUME NEW n \in 0..MaxTime, n \in S, n < MaxTime PROVE n + 1 \in S
<2>1. PICK run : RunsOverTrack(run, fixes, n)
  BY <1>2
<2> DEFINE next == [t \in 0..(n+1) |-> Step(run, t)]
<2>2. \A t \in 0..n : run[t] = Step(run, t)
  BY <2>1 DEF RunsOverTrack
<2>3. \A t \in 0..n : next[t] = run[t]
  BY <2>2
<2>4. \A t \in 0..(n+1) : t # 0 => t - 1 \in 0..n
  OBVIOUS
<2>5. \A t \in 0..(n+1) : Step(run, t) = Step(next, t)
  BY <2>3, <2>4
<2>6. next = [t \in 0..(n+1) |-> Step(next, t)]
  BY <2>5
<2>7. RunsOverTrack(next, fixes, n + 1)
  BY <2>6 DEF RunsOverTrack
<2> QED
  BY <2>7, <1>2
<1>3. MaxTime \in Nat
  BY IngestionAssumption
<1>4. MaxTime \in S
<2> HIDE DEF S
<2> QED
  BY <1>1, <1>2, <1>3, Climb
<1>5. \E run : RunsOverTrack(run, fixes, MaxTime)
  BY <1>4
<1> DEFINE run == CHOOSE run : RunsOverTrack(run, fixes, MaxTime)
<1>6. RunsOverTrack(run, fixes, MaxTime)
  BY <1>5
<1>7. \A at : Track(fixes, at) = run[at]
  BY DEF Track, RunsOverTrack
<1> QED
  BY <1>6, <1>7

LEMMA TrackNext ==
    ASSUME NEW fixes, NEW run, RunsOverTrack(run, fixes, MaxTime), NEW t \in Nat, t + 1 \in 0..MaxTime
    PROVE  /\ t + 1 \in DOMAIN fixes => run[t+1] = Extended(run[t], t+1, fixes[t+1])
           /\ t + 1 \notin DOMAIN fixes => run[t+1] = run[t]
<1>1. (t + 1) - 1 = t /\ t + 1 # 0
  OBVIOUS
<1>2. \A u \in 0..MaxTime : u # 0 =>
         /\ u \in DOMAIN fixes => run[u] = Extended(run[u-1], u, fixes[u])
         /\ u \notin DOMAIN fixes => run[u] = run[u-1]
  BY DEF RunsOverTrack
<1> QED
  BY <1>1, <1>2, ZenonT(30)

LEMMA TrackWaits ==
    ASSUME NEW fixes, NEW run, RunsOverTrack(run, fixes, MaxTime),
           NEW a \in 0..MaxTime, NEW b \in a..MaxTime, \A t \in (a+1)..b : t \notin DOMAIN fixes
    PROVE  run[b] = run[a]
<1>0. MaxTime \in Nat
  BY IngestionAssumption
<1> DEFINE S == {t \in a..b : run[t] = run[a]}
<1>1. a \in S
  OBVIOUS
<1>2. \A t \in a..b : t \in S /\ t < b => t + 1 \in S
<2> SUFFICES ASSUME NEW t \in a..b, t \in S, t < b PROVE t + 1 \in S
  OBVIOUS
<2>1. t + 1 \in (a+1)..b /\ t + 1 \in 0..MaxTime /\ (t + 1) - 1 = t /\ t + 1 # 0 /\ t \in Nat
  BY <1>0
<2>2. t + 1 \notin DOMAIN fixes
  BY <2>1
<2>3. run[t+1] = run[t]
  BY <2>1, <2>2, TrackNext
<2>4. run[t+1] = run[a]
  BY <2>3
<2> QED
  BY <2>1, <2>4
<1>3. a..b \subseteq S
<2>1. a \in Nat /\ b \in Nat
  BY <1>0
<2> HIDE DEF S
<2> QED
  BY <1>1, <1>2, <2>1, Climb, Zenon
<1> QED
  BY <1>3

LEMMA TrackAgrees ==
    ASSUME NEW f, NEW g, NEW run, NEW other,
           RunsOverTrack(run, f, MaxTime), RunsOverTrack(other, g, MaxTime), NEW b \in 0..MaxTime,
           \A t \in 1..b : (t \in DOMAIN f <=> t \in DOMAIN g) /\ (t \in DOMAIN f => f[t] = g[t])
    PROVE  run[b] = other[b]
<1>0. MaxTime \in Nat
  BY IngestionAssumption
<1> DEFINE S == {t \in 0..b : run[t] = other[t]}
<1>1. 0 \in S
  BY <1>0 DEF RunsOverTrack
<1>2. \A t \in 0..b : t \in S /\ t < b => t + 1 \in S
<2> SUFFICES ASSUME NEW t \in 0..b, t \in S, t < b PROVE t + 1 \in S
  OBVIOUS
<2>1. t + 1 \in 1..b /\ t + 1 \in 0..MaxTime /\ (t + 1) - 1 = t /\ t + 1 # 0 /\ t \in Nat
  BY <1>0
<2>2. run[t] = other[t]
  OBVIOUS
<2> SUFFICES run[t+1] = other[t+1]
  BY <2>1
<2> HIDE DEF S
<2>3. CASE t + 1 \in DOMAIN f
<3>1. t + 1 \in DOMAIN g /\ f[t+1] = g[t+1]
  BY <2>1, <2>3
<3>2. run[t+1] = Extended(run[t], t+1, f[t+1])
  BY <2>1, <2>3, TrackNext
<3>3. other[t+1] = Extended(other[t], t+1, g[t+1])
  BY <2>1, <3>1, TrackNext
<3> QED
  BY <2>2, <3>1, <3>2, <3>3
<2>4. CASE t + 1 \notin DOMAIN f
<3>1. t + 1 \notin DOMAIN g
  BY <2>1, <2>4
<3>2. run[t+1] = run[t]
  BY <2>1, <2>4, TrackNext
<3>3. other[t+1] = other[t]
  BY <2>1, <3>1, TrackNext
<3> QED
  BY <2>2, <3>2, <3>3
<2> QED
  BY <2>3, <2>4
<1>3. 0..b \subseteq S
<2>1. 0 \in Nat /\ b \in Nat
  BY <1>0
<2> HIDE DEF S
<2> QED
  BY <1>1, <1>2, <2>1, Climb, Zenon
<1> QED
  BY <1>3
-----------------------------------------------------------------------------
(* Tracks, their ends, and what is left of them when they are trimmed.      *)

Place == [at : Times, pos : Int]

InTime(h) == h \in Seq(Place) /\ \A i, j \in 1..Len(h) : i < j => h[i].at < h[j].at

\* h is what a track has from its m-th place on.
From(h, g, m) ==
    /\ h \in Seq(Place) /\ m \in 1..Len(g) /\ Len(h) = (Len(g) - m) + 1
    /\ \A i \in 1..Len(h) : h[i] = g[(i + m) - 1]

EndOf(h, g) == \E m \in 1..Len(g) : From(h, g, m)

LEMMA Appended ==
    ASSUME NEW h \in Seq(Place), NEW x \in Place
    PROVE  /\ Append(h, x) \in Seq(Place) /\ Len(h) \in Nat /\ Len(Append(h, x)) = Len(h) + 1
           /\ \A i \in 1..Len(h) : Append(h, x)[i] = h[i] /\ h[i] \in Place
           /\ Append(h, x)[Len(h) + 1] = x
  OBVIOUS

LEMMA AppendInTime ==
    ASSUME NEW h, InTime(h), NEW x \in Place, \A i \in 1..Len(h) : h[i].at < x.at
    PROVE  InTime(Append(h, x))
<1>1. h \in Seq(Place)
  BY DEF InTime
<1>2. \A i \in 1..Len(h) : h[i].at \in Nat
<2>1. \A i \in 1..Len(h) : h[i] \in Place
  BY <1>1, Appended
<2> QED
  BY <2>1, TimesAreNat DEF Place
<1>3. ASSUME NEW i \in 1..(Len(h) + 1), NEW j \in 1..(Len(h) + 1), i < j
      PROVE  Append(h, x)[i].at < Append(h, x)[j].at
<2>1. i \in 1..Len(h) /\ (j \in 1..Len(h) \/ j = Len(h) + 1)
  BY <1>1, <1>3
<2>2. Append(h, x)[i] = h[i]
  BY <1>1, <2>1, Appended
<2>3. CASE j \in 1..Len(h)
<3>1. Append(h, x)[j] = h[j]
  BY <1>1, <2>3, Appended
<3> QED
  BY <1>3, <2>1, <2>2, <2>3, <3>1 DEF InTime
<2>4. CASE j = Len(h) + 1
<3>1. Append(h, x)[j] = x
  BY <1>1, <2>4, Appended
<3> QED
  BY <2>1, <2>2, <3>1
<2> QED
  BY <2>1, <2>3, <2>4
<1>4. Append(h, x) \in Seq(Place) /\ Len(Append(h, x)) = Len(h) + 1
  BY <1>1, Appended
<1> QED
  BY <1>3, <1>4 DEF InTime

LEMMA EndInTime ==
    ASSUME NEW g, InTime(g), NEW h, EndOf(h, g)
    PROVE  /\ InTime(h) /\ g \in Seq(Place) /\ Len(h) \in 1..Len(g) /\ h[Len(h)] = g[Len(g)]
<1>1. PICK m \in 1..Len(g) : From(h, g, m)
  BY DEF EndOf
<1>2. h \in Seq(Place) /\ g \in Seq(Place) /\ Len(h) \in Nat /\ Len(g) \in Nat
  BY <1>1 DEF From, InTime
<1>3. Len(h) \in 1..Len(g)
  BY <1>1, <1>2 DEF From
<1>4. h[Len(h)] = g[Len(g)]
<2>1. h[Len(h)] = g[(Len(h) + m) - 1]
  BY <1>1, <1>3 DEF From
<2>2. (Len(h) + m) - 1 = Len(g)
  BY <1>1, <1>2 DEF From
<2> QED
  BY <2>1, <2>2
<1>5. ASSUME NEW i \in 1..Len(h), NEW j \in 1..Len(h), i < j PROVE h[i].at < h[j].at
<2>1. (i + m) - 1 \in 1..Len(g) /\ (j + m) - 1 \in 1..Len(g) /\ (i + m) - 1 < (j + m) - 1
  BY <1>1, <1>2, <1>5 DEF From
<2>2. h[i] = g[(i + m) - 1] /\ h[j] = g[(j + m) - 1]
  BY <1>1 DEF From
<2> QED
  BY <2>1, <2>2 DEF InTime
<1> QED
  BY <1>2, <1>3, <1>4, <1>5 DEF InTime

LEMMA EndAppended ==
    ASSUME NEW g \in Seq(Place), NEW h, EndOf(h, g), NEW x \in Place
    PROVE  EndOf(Append(h, x), Append(g, x))
<1>1. PICK m \in 1..Len(g) : From(h, g, m)
  BY DEF EndOf
<1>2. h \in Seq(Place) /\ Len(h) \in Nat /\ Len(g) \in Nat
  BY <1>1 DEF From
<1> DEFINE hx == Append(h, x)
           gx == Append(g, x)
<1>3. hx \in Seq(Place) /\ Len(hx) = Len(h) + 1 /\ Len(gx) = Len(g) + 1
  BY <1>2, Appended
<1>4. m \in 1..Len(gx) /\ Len(hx) = (Len(gx) - m) + 1
  BY <1>1, <1>2, <1>3 DEF From
<1>5. ASSUME NEW i \in 1..Len(hx) PROVE hx[i] = gx[(i + m) - 1]
<2>0. i \in 1..Len(h) \/ i = Len(h) + 1
  BY <1>2, <1>3
<2>1. CASE i \in 1..Len(h)
<3>1. (i + m) - 1 \in 1..Len(g)
  BY <1>1, <1>2, <2>1 DEF From
<3>2. hx[i] = h[i] /\ gx[(i + m) - 1] = g[(i + m) - 1]
  BY <1>2, <2>1, <3>1, Appended
<3> QED
  BY <1>1, <2>1, <3>2 DEF From
<2>2. CASE i = Len(h) + 1
<3>1. (i + m) - 1 = Len(g) + 1
  BY <1>1, <1>2, <2>2 DEF From
<3>2. hx[i] = x /\ gx[(i + m) - 1] = x
  BY <1>2, <2>2, <3>1, Appended
<3> QED
  BY <3>2
<2> QED
  BY <2>0, <2>1, <2>2
<1> HIDE DEF hx, gx
<1>6. From(hx, gx, m)
  BY <1>3, <1>4, <1>5 DEF From
<1>7. EndOf(hx, gx)
  BY <1>4, <1>6 DEF EndOf
<1> QED
  BY <1>7 DEF hx, gx

LEMMA LastIsEnd ==
    ASSUME NEW g \in Seq(Place), NEW x \in Place
    PROVE  EndOf(<<x>>, Append(g, x))
<1> DEFINE gx == Append(g, x)
<1>1. Len(gx) = Len(g) + 1 /\ Len(g) \in Nat /\ gx[Len(gx)] = x
  BY Appended
<1>2. <<x>> \in Seq(Place) /\ Len(<<x>>) = 1 /\ <<x>>[1] = x
  OBVIOUS
<1> DEFINE one == <<x>>
<1> HIDE DEF one, gx
<1>3. one \in Seq(Place) /\ Len(one) = 1 /\ one[1] = x
  BY <1>2 DEF one
<1>4. From(one, gx, Len(gx))
<2>1. \A i \in 1..Len(one) : i = 1 /\ (i + Len(gx)) - 1 = Len(gx)
  BY <1>1, <1>3
<2> QED
  BY <1>1, <1>3, <2>1 DEF From
<1>5. EndOf(one, gx)
  BY <1>1, <1>4 DEF EndOf
<1> QED
  BY <1>5 DEF one, gx

LEMMA EndOfEnd ==
    ASSUME NEW f, NEW g, NEW h, g \in Seq(Place), f \in Seq(Place), EndOf(h, g), EndOf(g, f)
    PROVE  EndOf(h, f)
<1>1. PICK m \in 1..Len(g) : From(h, g, m)
  BY DEF EndOf
<1>2. PICK n \in 1..Len(f) : From(g, f, n)
  BY DEF EndOf
<1>3. Len(f) \in Nat /\ Len(g) \in Nat /\ Len(h) \in Nat /\ h \in Seq(Place)
  BY <1>1 DEF From
<1> DEFINE k == (m + n) - 1
<1>4. k \in 1..Len(f) /\ Len(h) = (Len(f) - k) + 1
  BY <1>1, <1>2, <1>3 DEF From
<1>5. ASSUME NEW i \in 1..Len(h) PROVE h[i] = f[(i + k) - 1]
<2>1. (i + m) - 1 \in 1..Len(g) /\ (((i + m) - 1) + n) - 1 = (i + k) - 1
  BY <1>1, <1>2, <1>3 DEF From
<2>2. h[i] = g[(i + m) - 1]
  BY <1>1 DEF From
<2>3. g[(i + m) - 1] = f[(((i + m) - 1) + n) - 1]
  BY <1>2, <2>1 DEF From
<2> QED
  BY <2>1, <2>2, <2>3
<1> HIDE DEF k
<1>6. From(h, f, k)
  BY <1>3, <1>4, <1>5 DEF From
<1> QED
  BY <1>4, <1>6 DEF EndOf

LEMMA InTimeIs ==
    ASSUME NEW h, InTime(h)
    PROVE  /\ h \in Seq(Place) /\ Len(h) \in Nat /\ DOMAIN h = 1..Len(h)
           /\ \A i \in 1..Len(h) : h[i] \in Place /\ h[i].at \in Nat /\ h[i].at \in Times
           /\ \A i, j \in 1..Len(h) : i <= j => h[i].at <= h[j].at
           /\ \A i, j \in 1..Len(h) : h[i].at <= h[j].at => i <= j
<1>1. h \in Seq(Place) /\ Len(h) \in Nat /\ DOMAIN h = 1..Len(h)
  BY LenProperties DEF InTime
<1>2. \A i \in 1..Len(h) : h[i] \in Place
  BY <1>1
<1>3. \A i \in 1..Len(h) : h[i].at \in Times /\ h[i].at \in Nat
  BY <1>2, TimesAreNat DEF Place
<1>4. ASSUME NEW i \in 1..Len(h), NEW j \in 1..Len(h)
      PROVE  (i <= j => h[i].at <= h[j].at) /\ (h[i].at <= h[j].at => i <= j)
<2>1. i \in Nat /\ j \in Nat /\ h[i].at \in Nat /\ h[j].at \in Nat
  BY <1>1, <1>3
<2>2. CASE i < j
<3>1. h[i].at < h[j].at
  BY <2>2 DEF InTime
<3> QED
  BY <2>1, <2>2, <3>1
<2>3. CASE i = j
  BY <2>1, <2>3
<2>4. CASE j < i
<3>1. h[j].at < h[i].at
  BY <2>4 DEF InTime
<3> QED
  BY <2>1, <2>4, <3>1
<2> QED
  BY <2>1, <2>2, <2>3, <2>4
<1> QED
  BY <1>1, <1>2, <1>3, <1>4

LEMMA WholeIsFrom ==
    ASSUME NEW h \in Seq(Place), Len(h) >= 1
    PROVE  From(h, h, 1)
<1>1. Len(h) \in Nat
  OBVIOUS
<1> QED
  BY <1>1 DEF From

LEMMA SubSeqIsFrom ==
    ASSUME NEW h \in Seq(Place), NEW m \in 1..Len(h)
    PROVE  From(SubSeq(h, m, Len(h)), h, m)
<1> DEFINE n == Len(h)
           u == SubSeq(h, m, n)
<1>1. n \in Nat /\ m \in Int /\ n \in Int /\ m <= n
  OBVIOUS
<1>2. \A i \in m..n : h[i] \in Place
  OBVIOUS
<1> HIDE DEF n
<1>3. /\ u \in Seq(Place) /\ Len(u) = IF m <= n THEN n-m+1 ELSE 0
      /\ \A i \in 1..(n-m+1) : u[i] = h[m+i-1]
  BY <1>1, <1>2, SubSeqProperties
<1> HIDE DEF u
<1>4. Len(u) = (n - m) + 1
  BY <1>1, <1>3
<1>5. \A i \in 1..Len(u) : u[i] = h[(i + m) - 1]
<2> SUFFICES ASSUME NEW i \in 1..Len(u) PROVE u[i] = h[(i + m) - 1]
  OBVIOUS
<2>1. i \in 1..(n-m+1) /\ m+i-1 = (i + m) - 1
  BY <1>1, <1>4
<2> QED
  BY <1>3, <2>1
<1>6. From(u, h, m)
  BY <1>1, <1>3, <1>4, <1>5 DEF From, n
<1> QED
  BY <1>6 DEF n, u

LEMMA TrimIs ==
    ASSUME NEW h, InTime(h), NEW c \in Int, Len(h) >= 1, h[Len(h)].at >= c
    PROVE  \E m \in 1..Len(h) :
             /\ From(TrimHistory(h, c), h, m)
             /\ h[1].at > c => m = 1
             /\ h[1].at <= c => h[m].at <= c /\ \A i \in 1..Len(h) : i > m => h[i].at > c
<1> DEFINE inside == {i \in DOMAIN h : h[i].at >= c}
           first == CHOOSE i \in inside : \A j \in inside : i <= j
<1>0. /\ h \in Seq(Place) /\ Len(h) \in Nat /\ DOMAIN h = 1..Len(h)
      /\ \A i \in 1..Len(h) : h[i].at \in Nat
      /\ \A i, j \in 1..Len(h) : i <= j => h[i].at <= h[j].at
      /\ \A i, j \in 1..Len(h) : h[i].at <= h[j].at => i <= j
  BY InTimeIs
<1>1. inside \subseteq Nat /\ Len(h) \in inside
  BY <1>0
<1>2. \E i \in inside : \A j \in inside : i <= j
  BY <1>1, LeastTime
<1>3. first \in inside /\ \A j \in inside : first <= j
  BY <1>2, Zenon
<1>4. TrimHistory(h, c) = IF first = 1 THEN h
                          ELSE IF h[first].at = c THEN SubSeq(h, first, Len(h))
                          ELSE SubSeq(h, first - 1, Len(h))
  BY Zenon DEF TrimHistory
<1>5. first \in 1..Len(h) /\ h[first].at >= c /\ \A j \in 1..Len(h) : h[j].at >= c => first <= j
  BY <1>0, <1>3
<1> HIDE DEF inside, first
<1>6. CASE first = 1
<2>1. From(TrimHistory(h, c), h, 1)
  BY <1>0, <1>4, <1>6, WholeIsFrom
<2>2. h[1].at <= c => h[1].at = c
  BY <1>0, <1>5, <1>6
<2>3. h[1].at <= c => \A i \in 1..Len(h) : i > 1 => h[i].at > c
  BY <1>0, <2>2 DEF InTime
<2> QED
  BY <1>0, <2>1, <2>2, <2>3
<1>7. CASE first # 1 /\ h[first].at = c
<2>1. From(TrimHistory(h, c), h, first)
  BY <1>0, <1>4, <1>5, <1>7, SubSeqIsFrom
<2>2. \A i \in 1..Len(h) : i > first => h[i].at > c
  BY <1>0, <1>5, <1>7 DEF InTime
<2>3. h[1].at <= c
  BY <1>0, <1>5, <1>7
<2> QED
  BY <1>0, <1>5, <1>7, <2>1, <2>2, <2>3
<1>8. CASE first # 1 /\ h[first].at # c
<2>1. first - 1 \in 1..Len(h)
  BY <1>0, <1>5, <1>8
<2>2. From(TrimHistory(h, c), h, first - 1)
  BY <1>0, <1>4, <1>8, <2>1, SubSeqIsFrom
<2>3. h[first - 1].at <= c
  BY <1>0, <1>5, <2>1
<2>4. h[1].at <= c
  BY <1>0, <2>1, <2>3
<2>5. \A i \in 1..Len(h) : i > first - 1 => h[i].at > c
<3> SUFFICES ASSUME NEW i \in 1..Len(h), i > first - 1 PROVE h[i].at > c
  OBVIOUS
<3>1. first <= i
  BY <1>0, <1>5
<3>2. h[first].at <= h[i].at /\ h[first].at > c
  BY <1>0, <1>5, <1>8, <3>1
<3> QED
  BY <1>0, <1>5, <3>2
<2> QED
  BY <1>0, <1>5, <2>1, <2>2, <2>3, <2>4, <2>5
<1> QED
  BY <1>6, <1>7, <1>8

LEMMA FromTwice ==
    ASSUME NEW g, InTime(g), NEW u, NEW v, NEW m, From(u, g, m), From(v, g, m)
    PROVE  u = v
<1>1. u \in Seq(Place) /\ v \in Seq(Place) /\ Len(u) = Len(v) /\ \A i \in 1..Len(u) : u[i] = v[i]
  BY DEF From
<1> QED
  BY <1>1, SeqEqual

LEMMA TrimEnd ==
    ASSUME NEW h, InTime(h), NEW c \in Int, Len(h) >= 1, h[Len(h)].at >= c
    PROVE  /\ EndOf(TrimHistory(h, c), h)
           /\ TrimHistory(h, c)[1].at <= c <=> h[1].at <= c
           /\ h[1].at > c => TrimHistory(h, c) = h
<1>1. PICK m \in 1..Len(h) :
             /\ From(TrimHistory(h, c), h, m)
             /\ h[1].at > c => m = 1
             /\ h[1].at <= c => h[m].at <= c /\ \A i \in 1..Len(h) : i > m => h[i].at > c
  BY TrimIs
<1>2. /\ h \in Seq(Place) /\ Len(h) \in Nat
      /\ \A i \in 1..Len(h) : h[i].at \in Nat
  BY InTimeIs
<1>3. TrimHistory(h, c)[1] = h[m]
<2>1. 1 \in 1..Len(TrimHistory(h, c)) /\ (1 + m) - 1 = m
  BY <1>1, <1>2 DEF From
<2> QED
  BY <1>1, <2>1 DEF From
<1>4. h[1].at > c => TrimHistory(h, c) = h
  BY <1>1, <1>2, WholeIsFrom, FromTwice
<1> QED
  BY <1>1, <1>2, <1>3, <1>4 DEF EndOf

LEMMA TrimOfEnd ==
    ASSUME NEW g, InTime(g), NEW h, EndOf(h, g), NEW c \in Int, h[Len(h)].at >= c, h[1].at <= c
    PROVE  TrimHistory(h, c) = TrimHistory(g, c)
<1>1. PICK k \in 1..Len(g) : From(h, g, k)
  BY DEF EndOf
<1>2. InTime(h) /\ Len(h) \in 1..Len(g) /\ h[Len(h)] = g[Len(g)]
  BY EndInTime
<1>3. /\ Len(g) \in Nat /\ \A i \in 1..Len(g) : g[i].at \in Nat
      /\ \A i, j \in 1..Len(g) : i <= j => g[i].at <= g[j].at
      /\ Len(h) \in Nat /\ Len(h) >= 1 /\ \A i \in 1..Len(h) : h[i].at \in Nat
  BY <1>2, InTimeIs
<1>4. h[1] = g[k]
<2>1. 1 \in 1..Len(h) /\ (1 + k) - 1 = k
  BY <1>1, <1>3
<2> QED
  BY <1>1, <2>1 DEF From
<1>5. g[1].at <= c
<2>1. g[1].at <= g[k].at
  BY <1>1, <1>3
<2> QED
  BY <1>1, <1>3, <1>4, <2>1
<1>6. PICK m \in 1..Len(h) : /\ From(TrimHistory(h, c), h, m)
                             /\ h[m].at <= c /\ \A i \in 1..Len(h) : i > m => h[i].at > c
  BY <1>2, <1>3, TrimIs
<1>7. PICK n \in 1..Len(g) : /\ From(TrimHistory(g, c), g, n)
                             /\ g[n].at <= c /\ \A i \in 1..Len(g) : i > n => g[i].at > c
  BY <1>2, <1>3, <1>5, TrimIs
<1>8. (m + k) - 1 \in 1..Len(g) /\ h[m] = g[(m + k) - 1]
  BY <1>1, <1>3, <1>6 DEF From
<1>9. n = (m + k) - 1
<2>1. (m + k) - 1 <= n
<3> DEFINE i == (m + k) - 1
<3>1. i \in 1..Len(g) /\ g[i].at <= c
  BY <1>6, <1>8
<3> HIDE DEF i
<3>2. ASSUME i > n PROVE FALSE
<4>1. g[i].at > c
  BY <1>7, <3>1, <3>2, Zenon
<4>2. g[i].at \in Nat
  BY <1>3, <3>1, Zenon
<4> QED
  BY <3>1, <4>1, <4>2
<3>3. i <= n
  BY <3>1, <3>2, <1>7
<3> QED
  BY <3>3 DEF i
<2>2. ASSUME n > (m + k) - 1 PROVE FALSE
<3>1. (n - k) + 1 \in 1..Len(h) /\ (n - k) + 1 > m /\ (((n - k) + 1) + k) - 1 = n
<4>1. Len(h) = (Len(g) - k) + 1
  BY <1>1 DEF From
<4>2. Len(g) \in Nat /\ Len(h) \in Nat /\ k \in Int /\ m \in Nat /\ n \in Int /\ n <= Len(g)
      /\ m >= 1
  BY <1>3
<4> QED
  BY <2>2, <4>1, <4>2
<3>2. h[(n - k) + 1] = g[n]
  BY <1>1, <3>1 DEF From
<3>3. g[n].at > c
  BY <1>6, <3>1, <3>2
<3>4. g[n].at <= c /\ g[n].at \in Nat /\ c \in Int
  BY <1>3, <1>7
<3> QED
  BY <3>3, <3>4
<2> QED
  BY <1>3, <1>6, <1>7, <2>1, <2>2
<1> DEFINE u == TrimHistory(h, c)
<1>10. From(u, g, n)
<2>1. u \in Seq(Place) /\ Len(u) \in Nat /\ Len(u) = (Len(g) - n) + 1
  BY <1>1, <1>3, <1>6, <1>9 DEF From
<2>2. ASSUME NEW i \in 1..Len(u) PROVE u[i] = g[(i + n) - 1]
<3>1. (i + m) - 1 \in 1..Len(h) /\ (((i + m) - 1) + k) - 1 = (i + n) - 1
  BY <1>1, <1>3, <1>6, <1>9, <2>1 DEF From
<3>2. u[i] = h[(i + m) - 1]
  BY <1>6 DEF From
<3>3. h[(i + m) - 1] = g[(((i + m) - 1) + k) - 1]
  BY <1>1, <3>1 DEF From
<3> QED
  BY <3>1, <3>2, <3>3
<2> HIDE DEF u
<2> QED
  BY <1>7, <2>1, <2>2 DEF From
<1> QED
  BY <1>7, <1>10, FromTwice

LEMMA EndSurvives ==
    ASSUME NEW g, InTime(g), NEW h, EndOf(h, g), NEW c \in Int, g[Len(g)].at >= c, h[1].at > c
    PROVE  EndOf(h, TrimHistory(g, c))
<1>1. PICK k \in 1..Len(g) : From(h, g, k)
  BY DEF EndOf
<1>2. InTime(h) /\ Len(h) \in 1..Len(g)
  BY EndInTime
<1>3. /\ Len(g) \in Nat /\ Len(g) >= 1 /\ \A i \in 1..Len(g) : g[i].at \in Nat
      /\ \A i, j \in 1..Len(g) : i <= j => g[i].at <= g[j].at
      /\ Len(h) \in Nat /\ Len(h) >= 1
  BY <1>2, InTimeIs
<1>4. h[1] = g[k]
<2>1. 1 \in 1..Len(h) /\ (1 + k) - 1 = k
  BY <1>1, <1>3
<2> QED
  BY <1>1, <2>1 DEF From
<1>5. PICK n \in 1..Len(g) : /\ From(TrimHistory(g, c), g, n)
                             /\ g[1].at > c => n = 1
                             /\ g[1].at <= c => g[n].at <= c
  BY <1>3, TrimIs
<1>6. n <= k
  BY <1>1, <1>3, <1>4, <1>5
<1> DEFINE u == TrimHistory(g, c)
           l == (k - n) + 1
<1>7. Len(u) \in Nat /\ l \in 1..Len(u) /\ Len(h) = (Len(u) - l) + 1
  BY <1>1, <1>3, <1>5, <1>6 DEF From
<1>8. ASSUME NEW i \in 1..Len(h) PROVE h[i] = u[(i + l) - 1]
<2>1. (i + l) - 1 \in 1..Len(u) /\ (((i + l) - 1) + n) - 1 = (i + k) - 1
  BY <1>1, <1>3, <1>5, <1>6, <1>7 DEF From
<2>2. u[(i + l) - 1] = g[(((i + l) - 1) + n) - 1]
  BY <1>5, <2>1 DEF From
<2>3. h[i] = g[(i + k) - 1]
  BY <1>1 DEF From
<2> QED
  BY <2>1, <2>2, <2>3
<1>9. h \in Seq(Place)
  BY <1>1 DEF From
<1> HIDE DEF l, u
<1>10. EndOf(h, u)
  BY <1>7, <1>8, <1>9 DEF From, EndOf
<1> QED
  BY <1>10 DEF u

\* Fixes as the journal brings them.
Proper(fixes) ==
    /\ DOMAIN fixes \subseteq Times
    /\ \A t \in DOMAIN fixes : fixes[t] = [at |-> t, kph |-> fixes[t].kph, pos |-> fixes[t].pos]
                               /\ fixes[t].pos \in Int

Between(a, b) == {t \in Nat : a < t /\ t < b}

LEMMA ExtendedIs ==
    ASSUME NEW h, InTime(h), NEW t \in Times, NEW fix, fix.pos \in Int,
           \A i \in 1..Len(h) : h[i].at < t
    PROVE  /\ InTime(Extended(h, t, fix)) /\ Len(Extended(h, t, fix)) = Len(h) + 1
           /\ Extended(h, t, fix)[Len(h) + 1].at = t
           /\ \A i \in 1..Len(h) : Extended(h, t, fix)[i] = h[i]
<1> DEFINE x == [at |-> t, pos |-> fix.pos]
<1>1. x \in Place /\ x.at = t
  BY DEF Place
<1> HIDE DEF x
<1>2. InTime(Append(h, x))
  BY <1>1, AppendInTime
<1>3. h \in Seq(Place)
  BY DEF InTime
<1>4. Extended(h, t, fix) = Append(h, x)
  BY DEF Extended, x
<1> QED
  BY <1>1, <1>2, <1>3, <1>4, Appended

LEMMA TrackIs ==
    ASSUME NEW fixes, Proper(fixes), NEW at \in 0..MaxTime
    PROVE  /\ InTime(Track(fixes, at))
           /\ \A i \in 1..Len(Track(fixes, at)) :
                Track(fixes, at)[i].at \in DOMAIN fixes /\ Track(fixes, at)[i].at <= at
<1> DEFINE Good(h, t) == InTime(h) /\ \A i \in 1..Len(h) : h[i].at \in DOMAIN fixes /\ h[i].at <= t
<1>0. MaxTime \in Nat
  BY IngestionAssumption
<1>1. PICK run : RunsOverTrack(run, fixes, MaxTime) /\ \A t : Track(fixes, t) = run[t]
  BY TrackRuns
<1> DEFINE S == {t \in 0..MaxTime : Good(run[t], t)}
<1>2. 0 \in S
<2>1. run[0] = <<>>
  BY <1>0, <1>1 DEF RunsOverTrack
<2>2. InTime(<<>>) /\ 1..Len(<<>>) = {}
  BY DEF InTime
<2> QED
  BY <1>0, <2>1, <2>2
<1>3. ASSUME NEW t \in 0..MaxTime, t \in S, t < MaxTime PROVE t + 1 \in S
<2>1. t \in Nat /\ t + 1 \in 0..MaxTime /\ t + 1 \in Times
  BY <1>0, <1>3 DEF Times
<2>2. Good(run[t], t)
  BY <1>3
<2>3. \A i \in 1..Len(run[t]) : run[t][i].at \in Nat /\ run[t][i].at <= t /\ run[t][i].at < t + 1
  BY <2>1, <2>2, InTimeIs
<2>4. CASE t + 1 \in DOMAIN fixes
<3>1. run[t+1] = Extended(run[t], t + 1, fixes[t+1])
  BY <1>1, <2>1, <2>4, TrackNext
<3>2. fixes[t+1].pos \in Int
  BY <2>4 DEF Proper
<3>3. /\ InTime(run[t+1]) /\ Len(run[t+1]) = Len(run[t]) + 1
      /\ run[t+1][Len(run[t]) + 1].at = t + 1
      /\ \A i \in 1..Len(run[t]) : run[t+1][i] = run[t][i]
  BY <2>1, <2>2, <2>3, <3>1, <3>2, ExtendedIs
<3>4. \A i \in 1..Len(run[t+1]) : i \in 1..Len(run[t]) \/ i = Len(run[t]) + 1
  BY <2>2, <3>3, InTimeIs
<3>5. \A i \in 1..Len(run[t+1]) : run[t+1][i].at \in DOMAIN fixes /\ run[t+1][i].at <= t + 1
<4>1. ASSUME NEW i \in 1..Len(run[t])
      PROVE  run[t+1][i].at \in DOMAIN fixes /\ run[t+1][i].at <= t + 1
<5>1. run[t+1][i] = run[t][i] /\ run[t][i].at \in DOMAIN fixes
  BY <2>2, <3>3
<5>2. run[t][i].at \in Nat /\ run[t][i].at <= t
  BY <2>3
<5> QED
  BY <2>1, <5>1, <5>2
<4>2. run[t+1][Len(run[t]) + 1].at \in DOMAIN fixes /\ run[t+1][Len(run[t]) + 1].at <= t + 1
  BY <2>1, <2>4, <3>3
<4> HIDE DEF Good, S
<4> QED
  BY <3>4, <4>1, <4>2
<3> QED
  BY <2>1, <3>3, <3>5
<2>5. CASE t + 1 \notin DOMAIN fixes
<3>1. run[t+1] = run[t]
  BY <1>1, <2>1, <2>5, TrackNext
<3> QED
  BY <2>1, <2>2, <2>3, <3>1
<2> QED
  BY <2>4, <2>5
<1>4. 0..MaxTime \subseteq S
<2> HIDE DEF S
<2> QED
  BY <1>0, <1>2, <1>3, Climb
<1> QED
  BY <1>1, <1>4

LEMMA TrackAt ==
    ASSUME NEW fixes, Proper(fixes), NEW c \in DOMAIN fixes, NEW a \in Nat, a < c,
           \A t \in Between(a, c) : t \notin DOMAIN fixes
    PROVE  Track(fixes, c) = Extended(Track(fixes, a), c, fixes[c])
<1>0. MaxTime \in Nat /\ c \in 1..MaxTime
  BY IngestionAssumption DEF Proper, Times
<1>1. PICK run : RunsOverTrack(run, fixes, MaxTime) /\ \A t : Track(fixes, t) = run[t]
  BY TrackRuns
<1>2. run[c-1] = run[a]
<2>1. \A t \in (a+1)..(c-1) : t \notin DOMAIN fixes
  BY <1>0 DEF Between
<2>2. a \in 0..MaxTime /\ c - 1 \in a..MaxTime
  BY <1>0
<2> QED
  BY <1>1, <2>1, <2>2, TrackWaits
<1>3. run[(c-1)+1] = Extended(run[c-1], (c-1)+1, fixes[(c-1)+1])
<2>1. c - 1 \in Nat /\ (c - 1) + 1 = c /\ (c - 1) + 1 \in 0..MaxTime /\ (c-1)+1 \in DOMAIN fixes
  BY <1>0
<2> QED
  BY <1>1, <2>1, TrackNext
<1>4. (c - 1) + 1 = c
  BY <1>0
<1> QED
  BY <1>1, <1>2, <1>3, <1>4

LEMMA TrackUpTo ==
    ASSUME NEW f, NEW g, NEW b \in 0..MaxTime,
           \A t \in 1..b : (t \in DOMAIN f <=> t \in DOMAIN g) /\ (t \in DOMAIN f => f[t] = g[t])
    PROVE  Track(f, b) = Track(g, b)
<1>1. PICK run : RunsOverTrack(run, f, MaxTime) /\ \A t : Track(f, t) = run[t]
  BY TrackRuns
<1>2. PICK other : RunsOverTrack(other, g, MaxTime) /\ \A t : Track(g, t) = other[t]
  BY TrackRuns
<1> QED
  BY <1>1, <1>2, TrackAgrees
-----------------------------------------------------------------------------
(* The inactivity rule.                                                     *)

IsWindow(st) ==
    /\ st = [last |-> st.last, history |-> st.history, active |-> st.active,
             dist |-> st.dist, dur |-> st.dur]
    /\ InTime(st.history) /\ Len(st.history) >= 1 /\ st.history[Len(st.history)].at = st.last
    /\ st.active \in BOOLEAN /\ st.dur \in Nat \ {0}

Restarts(st, obs, s) ==
    \/ st = NoInactivity
    \/ <<st.dist, st.dur>> # <<s.dist, s.dur>>
    \/ obs.at - st.last >= s.dur

Trimmed(st, obs, s) ==
    TrimHistory(Append(st.history, [at |-> obs.at, pos |-> obs.pos]), obs.at - s.dur)

\* What a newer fix makes of a window that goes on.
GoesOn(st, obs, s, d) ==
    LET cutoff  == obs.at - s.dur
        history == Trimmed(st, obs, s)
        reaches == TravelledReaches(history, cutoff, s.dist)
        active  == IF history[1].at > cutoff THEN st.active ELSE ~reaches
    IN  /\ d.state = [last |-> obs.at, history |-> history, active |-> active,
                      dist |-> s.dist, dur |-> s.dur]
        /\ d.status = IF history[1].at > cutoff THEN "COLLECTING"
                      ELSE IF reaches THEN "CLEAR"
                      ELSE IF st.active THEN "ACTIVE" ELSE "CONFIRMED"

LEMMA InactivitySeen ==
    ASSUME NEW st, st = NoInactivity \/ IsWindow(st), NEW obs, obs.at \in Times,
           NEW s \in Policies, obs.at > st.last
    PROVE  LET d == DetectInactivity(st, obs, s) IN
           /\ ~s.idleOn => d = [state |-> NoInactivity, status |-> "IGNORED"]
           /\ s.idleOn /\ Restarts(st, obs, s) =>
                d = [state |-> StartWindow(obs, s), status |-> "COLLECTING"]
           /\ s.idleOn /\ ~Restarts(st, obs, s) => GoesOn(st, obs, s, d)
<1> DEFINE d == DetectInactivity(st, obs, s)
           history == Trimmed(st, obs, s)
           cutoff == obs.at - s.dur
<1>1. ~s.idleOn => d = [state |-> NoInactivity, status |-> "IGNORED"]
  BY DEF DetectInactivity
<1>2. ~OutOfOrder(st, obs)
<2>1. st.last \in Nat /\ obs.at \in Nat
<3>1. CASE st = NoInactivity
  BY <3>1, TimesAreNat DEF NoInactivity
<3>2. CASE IsWindow(st)
<4>1. Len(st.history) \in 1..Len(st.history)
  BY <3>2, InTimeIs DEF IsWindow
<4> QED
  BY <3>2, <4>1, InTimeIs, TimesAreNat DEF IsWindow
<3> QED
  BY <3>1, <3>2
<2> QED
  BY <2>1 DEF OutOfOrder
<1>3. s.idleOn /\ Restarts(st, obs, s) =>
        d = [state |-> StartWindow(obs, s), status |-> "COLLECTING"]
  BY <1>2 DEF DetectInactivity, Restarts
<1>4. ASSUME s.idleOn, ~Restarts(st, obs, s) PROVE GoesOn(st, obs, s, d)
<2>1. IsWindow(st) /\ st.dist = s.dist /\ st.dur = s.dur
  BY <1>4 DEF Restarts
<2> DEFINE next(active) == [st EXCEPT !.last = obs.at, !.history = history, !.active = active]
<2>2. ASSUME NEW active
      PROVE  next(active) = [last |-> obs.at, history |-> history, active |-> active,
                             dist |-> s.dist, dur |-> s.dur]
<3> DEFINE dist == s.dist
           dur == s.dur
           at == obs.at
           x == [st EXCEPT !.last = at]
           y == [x EXCEPT !.history = history]
           z == [y EXCEPT !.active = active]
<3>1. \E l, h, a : st = [last |-> l, history |-> h, active |-> a, dist |-> dist, dur |-> dur]
  BY <2>1, Zenon DEF IsWindow
<3>2. PICK l, h, a : st = [last |-> l, history |-> h, active |-> a, dist |-> dist, dur |-> dur]
  BY <3>1
<3> HIDE DEF dist, dur, at, history
<3>3. x = [last |-> at, history |-> h, active |-> a, dist |-> dist, dur |-> dur]
  BY <3>2
<3>4. y = [last |-> at, history |-> history, active |-> a, dist |-> dist, dur |-> dur]
<4> HIDE DEF x
<4> QED
  BY <3>3
<3>5. z = [last |-> at, history |-> history, active |-> active, dist |-> dist, dur |-> dur]
<4> HIDE DEF y
<4> QED
  BY <3>4
<3>6. [st EXCEPT !.last = at, !.history = history, !.active = active] = z
  OBVIOUS
<3> HIDE DEF x, y, z
<3>7. next(active) = z
  BY <3>6 DEF at
<3> QED
  BY <3>5, <3>7 DEF dist, dur, at
<2>3. d = IF history[1].at > cutoff THEN [state |-> next(st.active), status |-> "COLLECTING"]
          ELSE IF TravelledReaches(history, cutoff, s.dist)
          THEN [state |-> next(FALSE), status |-> "CLEAR"]
          ELSE [state |-> next(TRUE), status |-> IF st.active THEN "ACTIVE" ELSE "CONFIRMED"]
  BY <1>2, <1>4, Zenon DEF DetectInactivity, Restarts, Trimmed
<2> HIDE DEF next, history, cutoff, d
<2>4. CASE history[1].at > cutoff
<3>1. d = [state |-> next(st.active), status |-> "COLLECTING"]
  BY <2>3, <2>4
<3> QED
  BY <2>2, <2>4, <3>1 DEF GoesOn, history, cutoff
<2>5. CASE ~(history[1].at > cutoff) /\ TravelledReaches(history, cutoff, s.dist)
<3>1. d = [state |-> next(FALSE), status |-> "CLEAR"]
  BY <2>3, <2>5
<3> QED
  BY <2>2, <2>5, <3>1 DEF GoesOn, history, cutoff
<2>6. CASE ~(history[1].at > cutoff) /\ ~TravelledReaches(history, cutoff, s.dist)
<3>1. d = [state |-> next(TRUE), status |-> IF st.active THEN "ACTIVE" ELSE "CONFIRMED"]
  BY <2>3, <2>6
<3> QED
  BY <2>2, <2>6, <3>1 DEF GoesOn, history, cutoff
<2> QED
  BY <2>4, <2>5, <2>6
<1> QED
  BY <1>1, <1>3, <1>4

\* A window that goes on has its history from a newer fix and the old one.
LEMMA WindowGoesOn ==
    ASSUME NEW st, IsWindow(st), NEW obs, obs.at \in Times, obs.pos \in Int, NEW s \in Policies,
           obs.at > st.last
    PROVE  /\ InTime(Append(st.history, [at |-> obs.at, pos |-> obs.pos]))
           /\ Append(st.history, [at |-> obs.at, pos |-> obs.pos])[1] = st.history[1]
           /\ Append(st.history, [at |-> obs.at, pos |-> obs.pos])
                [Len(Append(st.history, [at |-> obs.at, pos |-> obs.pos]))].at = obs.at
           /\ EndOf(Trimmed(st, obs, s), Append(st.history, [at |-> obs.at, pos |-> obs.pos]))
           /\ InTime(Trimmed(st, obs, s)) /\ Len(Trimmed(st, obs, s)) >= 1
           /\ Trimmed(st, obs, s)[Len(Trimmed(st, obs, s))].at = obs.at
           /\ Trimmed(st, obs, s)[1].at <= obs.at - s.dur <=> st.history[1].at <= obs.at - s.dur
           /\ st.history[1].at > obs.at - s.dur =>
                Trimmed(st, obs, s) = Append(st.history, [at |-> obs.at, pos |-> obs.pos])
<1> DEFINE x == [at |-> obs.at, pos |-> obs.pos]
           h == st.history
           g == Append(h, x)
           c == obs.at - s.dur
<1>1. x \in Place /\ x.at = obs.at /\ obs.at \in Nat /\ s.dur \in Nat \ {0}
  BY TimesAreNat, IngestionAssumption DEF Place
<1>2. InTime(h) /\ h \in Seq(Place) /\ Len(h) \in Nat /\ Len(h) >= 1 /\ h[Len(h)].at = st.last
      /\ \A i \in 1..Len(h) : h[i].at \in Nat /\ h[i].at <= h[Len(h)].at
<2>1. InTime(h) /\ Len(h) >= 1 /\ h[Len(h)].at = st.last
  BY DEF IsWindow
<2>2. Len(h) \in Nat /\ h \in Seq(Place) /\ \A i \in 1..Len(h) : h[i].at \in Nat
  BY <2>1, InTimeIs
<2>3. \A i, j \in 1..Len(h) : i <= j => h[i].at <= h[j].at
  BY <2>1, InTimeIs
<2>4. Len(h) \in 1..Len(h) /\ \A i \in 1..Len(h) : i <= Len(h)
  BY <2>1, <2>2
<2>5. \A i \in 1..Len(h) : h[i].at <= h[Len(h)].at
  BY <2>3, <2>4
<2> QED
  BY <2>1, <2>2, <2>5
<1> HIDE DEF x, h
<1>3. \A i \in 1..Len(h) : h[i].at < x.at
<2>1. Len(h) \in 1..Len(h)
  BY <1>2
<2>2. st.last \in Nat
  BY <1>2, <2>1
<2> QED
  BY <1>1, <1>2, <2>2
<1>4. InTime(g)
  BY <1>1, <1>2, <1>3, AppendInTime
<1>5. Len(g) = Len(h) + 1 /\ g[Len(g)] = x /\ g[1] = h[1] /\ Len(g) \in Nat /\ Len(g) >= 1
  BY <1>1, <1>2, Appended
<1>6. c \in Int /\ g[Len(g)].at >= c
  BY <1>1, <1>5
<1> HIDE DEF g, c
<1>7. /\ EndOf(TrimHistory(g, c), g)
      /\ TrimHistory(g, c)[1].at <= c <=> g[1].at <= c
      /\ g[1].at > c => TrimHistory(g, c) = g
  BY <1>4, <1>5, <1>6, TrimEnd
<1>8. Trimmed(st, obs, s) = TrimHistory(g, c)
  BY DEF Trimmed, g, h, x, c
<1>9. /\ InTime(TrimHistory(g, c)) /\ Len(TrimHistory(g, c)) \in 1..Len(g)
      /\ TrimHistory(g, c)[Len(TrimHistory(g, c))] = g[Len(g)]
  BY <1>4, <1>7, EndInTime
<1>10. Len(TrimHistory(g, c)) >= 1
  BY <1>5, <1>9
<1> QED
  BY <1>1, <1>4, <1>5, <1>7, <1>8, <1>9, <1>10 DEF g, h, x, c

\* A window of consecutive fixes.
Tracks(st, fixes) ==
    IsWindow(st) /\ st.last \in DOMAIN fixes /\ EndOf(st.history, Track(fixes, st.last))

\* A whole window without the distance.
Stands(fixes, t, s) ==
    LET window == TrimHistory(Track(fixes, t), t - s.dur)
    IN  s.idleOn /\ window[1].at <= t - s.dur /\ ~TravelledReaches(window, t - s.dur, s.dist)

LEMMA StartTracks ==
    ASSUME NEW fixes, Proper(fixes), NEW s \in Policies, NEW t \in DOMAIN fixes
    PROVE  LET st == StartWindow(fixes[t], s) IN Tracks(st, fixes) /\ st.last = t
<1> DEFINE st == StartWindow(fixes[t], s)
           x == [at |-> t, pos |-> fixes[t].pos]
<1>1. fixes[t].at = t /\ fixes[t].pos \in Int /\ t \in Times /\ t \in Nat /\ t >= 1 /\ t - 1 \in 0..MaxTime
  BY IngestionAssumption DEF Proper, Times
<1>2. st = [last |-> t, history |-> <<x>>, active |-> FALSE, dist |-> s.dist, dur |-> s.dur]
  BY <1>1 DEF StartWindow
<1>3. x \in Place /\ x.at = t
  BY <1>1 DEF Place
<1> HIDE DEF x
<1>4. InTime(<<x>>) /\ Len(<<x>>) = 1 /\ <<x>>[1] = x
  BY <1>3 DEF InTime
<1>5. s.dur \in Nat \ {0}
  BY IngestionAssumption
<1> DEFINE one == <<x>>
<1> HIDE DEF st, one
<1>6. st.last = t /\ st.history = one /\ st.active = FALSE /\ st.dist = s.dist /\ st.dur = s.dur
  BY <1>2 DEF one
<1>7. IsWindow(st)
<2>1. st = [last |-> st.last, history |-> st.history, active |-> st.active,
            dist |-> st.dist, dur |-> st.dur]
  BY <1>2, <1>6 DEF one
<2>2. InTime(one) /\ Len(one) = 1 /\ one[1].at = t
  BY <1>3, <1>4 DEF one
<2>3. InTime(st.history) /\ Len(st.history) >= 1 /\ st.history[Len(st.history)].at = st.last
  BY <1>6, <2>2
<2>4. st.active \in BOOLEAN /\ st.dur \in Nat \ {0}
  BY <1>5, <1>6
<2> QED
  BY <2>1, <2>3, <2>4, Zenon DEF IsWindow
<1>8. Track(fixes, t) = Append(Track(fixes, t-1), x)
<2>1. t - 1 \in Nat /\ t - 1 < t /\ Between(t - 1, t) = {}
  BY <1>1 DEF Between
<2>2. Track(fixes, t) = Extended(Track(fixes, t-1), t, fixes[t])
  BY <2>1, TrackAt
<2> QED
  BY <2>2 DEF Extended, x
<1>9. Track(fixes, t-1) \in Seq(Place)
  BY <1>1, TrackIs DEF InTime
<1>10. EndOf(one, Track(fixes, t))
  BY <1>3, <1>8, <1>9, LastIsEnd DEF one
<1> QED
  BY <1>6, <1>7, <1>10 DEF Tracks, st

LEMMA DetectTracks ==
    ASSUME NEW fixes, Proper(fixes), NEW st, st = NoInactivity \/ Tracks(st, fixes),
           NEW s \in Policies, NEW t \in DOMAIN fixes, st.last < t,
           st # NoInactivity => \A u \in Between(st.last, t) : u \notin DOMAIN fixes
    PROVE  LET d == DetectInactivity(st, fixes[t], s) IN
           /\ d.state = NoInactivity \/ (Tracks(d.state, fixes) /\ d.state.last = t)
           /\ d.status \in {"CONFIRMED", "ACTIVE"} => Stands(fixes, t, s)
<1> DEFINE obs == fixes[t]
           d == DetectInactivity(st, obs, s)
           x == [at |-> obs.at, pos |-> obs.pos]
           g == Track(fixes, t)
           c == t - s.dur
<1>1. obs.at = t /\ obs.pos \in Int /\ t \in Times /\ t \in Nat /\ x \in Place /\ t \in 0..MaxTime
  BY DEF Proper, Times, Place
<1>2. st = NoInactivity \/ IsWindow(st)
  BY DEF Tracks
<1>3. /\ ~s.idleOn => d = [state |-> NoInactivity, status |-> "IGNORED"]
      /\ s.idleOn /\ Restarts(st, obs, s) =>
            d = [state |-> StartWindow(obs, s), status |-> "COLLECTING"]
      /\ s.idleOn /\ ~Restarts(st, obs, s) => GoesOn(st, obs, s, d)
<2>1. st.last \in Nat
<3>1. CASE st = NoInactivity
  BY <3>1 DEF NoInactivity
<3>2. CASE Tracks(st, fixes)
  BY <3>2, TimesAreNat DEF Tracks, Proper
<3> QED
  BY <3>1, <3>2
<2>2. obs.at > st.last
  BY <1>1, <2>1
<2> QED
  BY <1>1, <1>2, <2>2, InactivitySeen
<1> SUFFICES /\ d.state = NoInactivity \/ (Tracks(d.state, fixes) /\ d.state.last = t)
             /\ d.status \in {"CONFIRMED", "ACTIVE"} => Stands(fixes, t, s)
  OBVIOUS
<1> HIDE DEF obs, d, x, g, c
<1>4. CASE ~s.idleOn
<2>1. d.state = NoInactivity /\ d.status = "IGNORED"
  BY <1>3, <1>4
<2> QED
  BY <2>1
<1>5. CASE s.idleOn /\ Restarts(st, obs, s)
<2>1. d.state = StartWindow(obs, s) /\ d.status = "COLLECTING"
  BY <1>3, <1>5
<2> QED
  BY <2>1, StartTracks DEF obs
<1>6. CASE s.idleOn /\ ~Restarts(st, obs, s)
<2>1. GoesOn(st, obs, s, d) /\ Tracks(st, fixes) /\ IsWindow(st)
      /\ st.dist = s.dist /\ st.dur = s.dur
  BY <1>3, <1>6 DEF Restarts, Tracks
<2> DEFINE h == st.history
           hx == Append(h, x)
           T == Trimmed(st, obs, s)
<2>2. st.last \in Nat /\ st.last \in 0..MaxTime /\ obs.at > st.last
  BY <1>1, <2>1 DEF Tracks, Proper, Times
<2>3. /\ InTime(hx) /\ hx[Len(hx)].at = t /\ EndOf(T, hx) /\ InTime(T) /\ Len(T) >= 1
      /\ T[Len(T)].at = t /\ hx[1] = h[1]
      /\ T[1].at <= c <=> h[1].at <= c
  BY <1>1, <2>1, <2>2, WindowGoesOn DEF x, c
<2>4. g = Append(Track(fixes, st.last), x)
<3>1. g = Extended(Track(fixes, st.last), t, fixes[t])
  BY <1>1, <2>1, <2>2, TrackAt DEF g, Tracks, IsWindow, NoInactivity
<3> QED
  BY <1>1, <3>1 DEF Extended, x, obs
<2>5. InTime(g)
  BY <1>1, TrackIs DEF g
<2>6. EndOf(hx, g)
<3>1. Track(fixes, st.last) \in Seq(Place)
  BY <2>2, TrackIs DEF InTime
<3> QED
  BY <1>1, <2>1, <2>4, <3>1, EndAppended DEF Tracks
<2>7. EndOf(T, g)
  BY <2>3, <2>5, <2>6, EndOfEnd DEF InTime
<2> HIDE DEF h, hx, T
<2>8. d.state.last = t /\ d.state.history = T /\ d.state.dist = s.dist /\ d.state.dur = s.dur
      /\ d.state.active \in BOOLEAN
      /\ d.state = [last |-> d.state.last, history |-> d.state.history, active |-> d.state.active,
                    dist |-> d.state.dist, dur |-> d.state.dur]
<3>1. PICK a : d.state = [last |-> t, history |-> T, active |-> a, dist |-> s.dist, dur |-> s.dur]
               /\ a \in BOOLEAN
<4>1. st.active \in BOOLEAN
  BY <2>1 DEF IsWindow
<4> DEFINE a == IF T[1].at > obs.at - s.dur THEN st.active
                ELSE ~TravelledReaches(T, obs.at - s.dur, s.dist)
<4>2. d.state = [last |-> t, history |-> T, active |-> a, dist |-> s.dist, dur |-> s.dur]
  BY <1>1, <2>1, Zenon DEF GoesOn, T
<4>3. a \in BOOLEAN
  BY <4>1
<4> QED
  BY <4>2, <4>3
<3> QED
  BY <3>1
<2>9. IsWindow(d.state)
<3>1. s.dur \in Nat \ {0}
  BY IngestionAssumption
<3> QED
  BY <2>3, <2>8, <3>1 DEF IsWindow
<2>10. Tracks(d.state, fixes)
  BY <2>7, <2>8, <2>9 DEF Tracks, g
<2>11. ASSUME d.status \in {"CONFIRMED", "ACTIVE"} PROVE Stands(fixes, t, s)
<3>1. ~(T[1].at > c) /\ ~TravelledReaches(T, c, s.dist)
<4>1. d.status = IF T[1].at > c THEN "COLLECTING"
                 ELSE IF TravelledReaches(T, c, s.dist) THEN "CLEAR"
                 ELSE IF st.active THEN "ACTIVE" ELSE "CONFIRMED"
  BY <1>1, <2>1, Zenon DEF GoesOn, T, c
<4> QED
  BY <2>11, <4>1
<3>2. T[1].at \in Nat /\ c \in Int
<4>1. 1 \in 1..Len(T) /\ s.dur \in Nat
  BY <2>3, InTimeIs, IngestionAssumption
<4> QED
  BY <1>1, <2>3, <4>1, InTimeIs DEF c
<3>3. T[1].at <= c /\ hx[1].at <= c
  BY <2>3, <3>1, <3>2
<3>4. T = TrimHistory(hx, c)
  BY <1>1 DEF T, hx, h, x, c, Trimmed
<3>5. hx[Len(hx)].at >= c
<4>1. s.dur \in Nat
  BY IngestionAssumption
<4> QED
  BY <1>1, <2>3, <4>1 DEF c
<3>6. T = TrimHistory(g, c)
  BY <2>5, <2>6, <3>2, <3>3, <3>4, <3>5, TrimOfEnd
<3> QED
  BY <1>6, <3>1, <3>3, <3>6, Zenon DEF Stands, g, c
<2> QED
  BY <2>8, <2>10, <2>11
<1> QED
  BY <1>4, <1>5, <1>6
-----------------------------------------------------------------------------
(* The window in memory holds the fixes that came last.                     *)

LEMMA FixesAre ==
    ASSUME RowsTyped, NEW rows, rows \subseteq Journaled
    PROVE  /\ Proper(Fixes(rows)) /\ DOMAIN Fixes(rows) = rows
           /\ \A t \in rows : Fixes(rows)[t] = Observation(t)
<1>1. DOMAIN Fixes(rows) = rows /\ \A t \in rows : Fixes(rows)[t] = Observation(t)
  BY DEF Fixes
<1>2. rows \subseteq Times
  BY DEF RowsTyped
<1>3. ASSUME NEW t \in rows
      PROVE  /\ Observation(t) = [at |-> t, kph |-> Observation(t).kph, pos |-> Observation(t).pos]
             /\ Observation(t).pos \in Int
  BY DEF RowsTyped, Observation, Sample
<1> QED
  BY <1>1, <1>2, <1>3 DEF Proper

\* Two sets of fixes that agree up to a time.
Alike(f, g, b) ==
    \A t \in 1..b : (t \in DOMAIN f <=> t \in DOMAIN g) /\ (t \in DOMAIN f => f[t] = g[t])

LEMMA TracksKept ==
    ASSUME NEW f, Proper(f), NEW g, NEW st, Tracks(st, f), Alike(f, g, st.last)
    PROVE  Tracks(st, g)
<1>1. st.last \in DOMAIN f /\ st.last \in Times
  BY DEF Tracks, Proper
<1>2. st.last \in 0..MaxTime /\ st.last \in 1..st.last
  BY <1>1 DEF Times
<1>3. Track(f, st.last) = Track(g, st.last)
  BY <1>2, TrackUpTo DEF Alike
<1>4. st.last \in DOMAIN g
  BY <1>1, <1>2 DEF Alike
<1> QED
  BY <1>3, <1>4 DEF Tracks

LEMMA StandsKept ==
    ASSUME NEW f, NEW g, NEW t \in Times, NEW s, Stands(f, t, s), Alike(f, g, t)
    PROVE  Stands(g, t, s)
<1>1. t \in 0..MaxTime
  BY DEF Times
<1>2. Track(f, t) = Track(g, t)
  BY <1>1, TrackUpTo DEF Alike
<1> QED
  BY <1>2, Zenon DEF Stands

\* The rows replayed are the newest ones: the window they rebuild is one of
\* all rows, at every time of the replay.
RunTracks(run, part, all) ==
    \A t \in 0..MaxTime :
        \/ run[t] = NoInactivity
        \/ /\ Tracks(run[t], all) /\ run[t].last \in DOMAIN part /\ run[t].last <= t
           /\ \A u \in DOMAIN part : u <= t => u <= run[t].last

LEMMA PrimedRunTracks ==
    ASSUME NEW all, Proper(all), NEW part, DOMAIN part \subseteq DOMAIN all,
           \A t \in DOMAIN part : part[t] = all[t],
           \A u \in DOMAIN part, v \in DOMAIN all : u <= v => v \in DOMAIN part,
           NEW s \in Policies, NEW run, RunsOverPrimed(run, part, NoInactivity, s, MaxTime)
    PROVE  RunTracks(run, part, all)
<1> DEFINE Good(t) == run[t] = NoInactivity \/
                      (/\ Tracks(run[t], all) /\ run[t].last \in DOMAIN part /\ run[t].last <= t
                       /\ \A u \in DOMAIN part : u <= t => u <= run[t].last)
           S == {t \in 0..MaxTime : Good(t)}
<1>2. MaxTime \in Nat /\ DOMAIN part \subseteq Times /\ \A u \in DOMAIN part : u \in Nat
  BY IngestionAssumption, TimesAreNat DEF Proper
<1>3. 0 \in S
  BY <1>2 DEF RunsOverPrimed
<1>4. ASSUME NEW t \in 0..MaxTime, t \in S, t < MaxTime PROVE t + 1 \in S
<2>1. t \in Nat /\ t + 1 \in Nat /\ t + 1 \in 0..MaxTime /\ Good(t)
  BY <1>2, <1>4
<2>2. /\ t + 1 \in DOMAIN part => run[t+1] = DetectInactivity(run[t], part[t+1], s).state
      /\ t + 1 \notin DOMAIN part => run[t+1] = run[t]
  BY <2>1, PrimedNext
<2>3. CASE t + 1 \notin DOMAIN part
<3>1. run[t+1] = run[t]
  BY <2>2, <2>3
<3>2. CASE run[t] = NoInactivity
  BY <2>1, <3>1, <3>2
<3>3. CASE ~(run[t] = NoInactivity)
<4>1. Tracks(run[t], all) /\ run[t].last \in DOMAIN part /\ run[t].last <= t
      /\ \A u \in DOMAIN part : u <= t => u <= run[t].last
  BY <2>1, <3>3
<4>2. run[t].last <= t + 1
  BY <1>2, <2>1, <4>1
<4>3. ASSUME NEW u \in DOMAIN part, u <= t + 1 PROVE u <= run[t].last
<5>1. u <= t
  BY <1>2, <2>1, <2>3, <4>3
<5> QED
  BY <4>1, <5>1
<4> QED
  BY <2>1, <3>1, <4>1, <4>2, <4>3
<3> QED
  BY <3>2, <3>3
<2>4. CASE t + 1 \in DOMAIN part
<3> DEFINE st == run[t]
           c == t + 1
           d == DetectInactivity(st, all[c], s)
<3>1. run[c] = d.state
  BY <2>2, <2>4
<3>2. c \in DOMAIN all /\ (st = NoInactivity \/ Tracks(st, all)) /\ st.last < c
<4>1. CASE st = NoInactivity
  BY <2>1, <2>4, <4>1 DEF NoInactivity
<4>2. CASE ~(st = NoInactivity)
<5>1. Tracks(st, all) /\ st.last \in DOMAIN part /\ st.last <= t
  BY <2>1, <4>2
<5>2. st.last < c
  BY <1>2, <2>1, <5>1
<5> QED
  BY <2>4, <5>1, <5>2
<4> QED
  BY <4>1, <4>2
<3>3. ASSUME st # NoInactivity, NEW u \in Between(st.last, c) PROVE u \notin DOMAIN all
<4>1. st.last \in DOMAIN part /\ \A v \in DOMAIN part : v <= t => v <= st.last
  BY <2>1, <3>3
<4>2. st.last \in Nat
  BY <1>2, <4>1
<4>3. u \in Nat /\ st.last < u /\ u < c
  BY <3>3 DEF Between
<4>4. st.last <= u /\ u <= t /\ ~(u <= st.last)
  BY <2>1, <4>2, <4>3
<4> QED
  BY <4>1, <4>4
<3>4. d.state = NoInactivity \/ (Tracks(d.state, all) /\ d.state.last = c)
<4> HIDE DEF st, c
<4> QED
  BY <3>2, <3>3, DetectTracks
<3> HIDE DEF d
<3>5. CASE run[c] = NoInactivity
  BY <2>1, <3>5
<3>6. CASE Tracks(run[c], all) /\ run[c].last = c
  BY <1>2, <2>1, <2>4, <3>6
<3> QED
  BY <3>1, <3>4, <3>5, <3>6
<2> QED
  BY <2>3, <2>4
<1>5. 0..MaxTime \subseteq S
<2> HIDE DEF S
<2> QED
  BY <1>2, <1>3, <1>4, Climb
<1> QED
  BY <1>5 DEF RunTracks

LEMMA PrimedTracks ==
    ASSUME NEW all, Proper(all), NEW part, DOMAIN part \subseteq DOMAIN all,
           \A t \in DOMAIN part : part[t] = all[t],
           \A u \in DOMAIN part, v \in DOMAIN all : u <= v => v \in DOMAIN part,
           NEW s \in Policies
    PROVE  LET p == Primed(NoInactivity, part, s) IN
           p = NoInactivity \/ (Tracks(p, all) /\ p.last = Latest(DOMAIN part))
<1> DEFINE p == Primed(NoInactivity, part, s)
<1>1. PICK run : RunsOverPrimed(run, part, NoInactivity, s, MaxTime) /\ p = run[MaxTime]
  BY PrimedRuns
<1> HIDE DEF p
<1>2. MaxTime \in Nat /\ DOMAIN part \subseteq Times /\ MaxTime \in 0..MaxTime
  BY IngestionAssumption DEF Proper
<1>3. RunTracks(run, part, all)
  BY <1>1, PrimedRunTracks
<1>4. CASE ~(p = NoInactivity)
<2>1. /\ Tracks(p, all) /\ p.last \in DOMAIN part
      /\ \A u \in DOMAIN part : u <= MaxTime => u <= p.last
  BY <1>1, <1>2, <1>3, <1>4 DEF RunTracks
<2>2. \A u \in DOMAIN part : u <= p.last
  BY <1>2, <2>1 DEF Times
<2>3. Latest(DOMAIN part) = p.last
  BY <1>2, <2>1, <2>2, LatestOf
<2> QED
  BY <2>1, <2>3 DEF p
<1> QED
  BY <1>4 DEF p

\* The rows the inactivity detector has seen.
Afterwards == task.pc \in {"writeSpeeding", "writeInactivity", "complete"}

Watched == IF Afterwards THEN Eligible \union {Current} ELSE Eligible

Journal == Fixes(Journaled)

\* Memory holds the window of the newest fixes, a confirmation that is about
\* to be written stands, and so does each that was.
WindowHeld ==
    /\ \/ memory.inactivity = NoInactivity
       \/ Tracks(memory.inactivity, Journal) /\ memory.inactivity.last = Latest(Watched)
    /\ task.pc \in {"restore", "prime"} =>
         memory.inactivity = NoInactivity /\ task.snapshot \in Policies

WindowSeen ==
    task.pc \in {"writeSpeeding", "writeInactivity"} /\ task.inactivity = "CONFIRMED" =>
        \E s \in Chosen : Stands(Journal, Current, s)

WindowTold ==
    \A c \in DOMAIN alerts.receipts["INACTIVITY"] : \E s \in Chosen : Stands(Journal, c, s)

WindowKnows == ~env.late => WindowHeld /\ WindowSeen /\ WindowTold

LEMMA ToldIs == WindowTold <=> InactivityJustified
  BY Zenon DEF WindowTold, InactivityJustified, Stands, Window, Journal

\* Only a new fix changes the track, and it comes after the others.
LEMMA JournalStays ==
    ASSUME IInv, [Next]_vars
    PROVE  \/ Journal' = Journal
           \/ /\ \E t \in Times, p \in env.payloads : Deliver(t, p)
              /\ \A u \in Journaled : ~env.late => Alike(Journal, Journal', u)
<1>1. RowsTyped /\ RowsTyped' /\ TaskKnows
  BY StepKeeps DEF IInv, Types
<1>2. CASE UNCHANGED journal
<2>1. Journaled' = Journaled /\ \A t : Observation(t)' = Observation(t)
  BY <1>2, SameRows DEF Observation
<2> QED
  BY <2>1 DEF Journal, Fixes
<1>3. CASE task.pc = "complete" /\ journal' = [journal EXCEPT ![Current].processed = TRUE,
                                                  ![Current].eligible = ReplayEligible(Current)]
<2>1. Current \in Pending
  BY <1>1, <1>3, CurrentIs
<2>2. ReplayEligible(Current) \in BOOLEAN
  BY DEF ReplayEligible
<2>3. /\ Journaled' = Journaled
      /\ journal'[Current].kph = journal[Current].kph /\ journal'[Current].pos = journal[Current].pos
      /\ \A u \in Journaled : u # Current => journal'[u] = journal[u]
  BY <1>1, <1>3, <2>1, <2>2, RowDone
<2>4. \A u \in Journaled : Observation(u)' = Observation(u)
<3> SUFFICES ASSUME NEW u \in Journaled
             PROVE  [at |-> u, kph |-> journal'[u].kph, pos |-> journal'[u].pos]
                      = [at |-> u, kph |-> journal[u].kph, pos |-> journal[u].pos]
  BY DEF Observation
<3> QED
  BY <2>3
<2>5. [t \in Journaled' |-> Observation(t)'] = [t \in Journaled |-> Observation(t)]
  BY <2>3, <2>4
<2> QED
  BY <2>5 DEF Journal, Fixes
<1>4. ASSUME NEW t \in Times, NEW p \in env.payloads, Deliver(t, p)
      PROVE  \A u \in Journaled : ~env.late => Alike(Journal, Journal', u)
<2>1. t \notin Journaled /\ (env.late \/ InOrder(t)) /\ journal' = Put(journal, t, Row(p))
  BY <1>4 DEF Deliver
<2>2. Journaled' = Journaled \union {t} /\ \A u \in Journaled : journal'[u] = journal[u]
  BY <1>1, <2>1, NewRow
<2>3. Journaled \subseteq Journaled /\ Journaled' \subseteq Journaled'
  OBVIOUS
<2>4. DOMAIN Journal = Journaled /\ \A v \in Journaled : Journal[v] = Observation(v)
  BY <1>1, <2>3, FixesAre DEF Journal
<2>5. DOMAIN Journal' = Journaled' /\ \A v \in Journaled' : Journal'[v] = Observation(v)'
  BY DEF Journal, Fixes
<2>6. ASSUME NEW u \in Journaled, ~env.late, NEW v \in 1..u
      PROVE  /\ v \in DOMAIN Journal <=> v \in DOMAIN Journal'
             /\ v \in DOMAIN Journal => Journal[v] = Journal'[v]
<3>1. u \in Nat /\ t \in Nat
  BY <1>1, TimesAreNat DEF RowsTyped
<3>2. u < t
  BY <2>1, <2>6, <3>1 DEF InOrder
<3>3. v # t
  BY <3>1, <3>2
<3>4. v \in Journaled <=> v \in Journaled'
  BY <2>2, <3>3
<3>5. v \in Journaled => Observation(v)' = Observation(v)
  BY <2>2 DEF Observation
<3> QED
  BY <2>4, <2>5, <3>4, <3>5
<2> QED
  BY <2>6 DEF Alike
<1>5. (\E t \in Times, p \in env.payloads : Deliver(t, p)) \/ UNCHANGED journal \/ task.pc = "complete"
  BY DEF Next, Handler, Redeliver, Drain, Bootstrap, Restore, Prime, EvaluateSpeeding,
     EvaluateInactivity, WriteSpeeding, WriteInactivity, Complete, Fail, LoseInsertAnswer, Restart,
     CommitSettings, NotifySettings, durable, vars
<1>6. \/ UNCHANGED journal
      \/ \E t \in Times, p \in env.payloads : t \notin Journaled /\ journal' = Put(journal, t, Row(p))
      \/ /\ task.pc = "complete"
         /\ journal' = [journal EXCEPT ![Current].processed = TRUE,
                                       ![Current].eligible = ReplayEligible(Current)]
  BY RowsStep
<1>7. CASE \E t \in Times, p \in env.payloads : Deliver(t, p)
  BY <1>4, <1>7
<1>8. ASSUME task.pc = "complete", ~(\E t \in Times, p \in env.payloads : Deliver(t, p))
      PROVE  UNCHANGED journal \/ journal' = [journal EXCEPT ![Current].processed = TRUE,
                                                  ![Current].eligible = ReplayEligible(Current)]
  BY <1>8 DEF Next, Handler, Redeliver, Drain, Bootstrap, Restore, Prime, EvaluateSpeeding,
     EvaluateInactivity, WriteSpeeding, WriteInactivity, Complete, Fail, LoseInsertAnswer, Restart,
     CommitSettings, NotifySettings, durable, vars
<1> QED
  BY <1>2, <1>3, <1>5, <1>7, <1>8

LEMMA JournalTyped ==
    ASSUME IInv
    PROVE  Proper(Journal) /\ DOMAIN Journal = Journaled /\ \A t \in Journaled : Journal[t] = Observation(t)
  BY FixesAre DEF Journal, IInv, Types

\* What stood goes on to stand.
LEMMA StandsOn ==
    ASSUME IInv, [Next]_vars, ~env.late
    PROVE  /\ \A st : Tracks(st, Journal) => Tracks(st, Journal')
           /\ \A u \in Journaled : \A s : Stands(Journal, u, s) => Stands(Journal', u, s)
<1>1. Proper(Journal) /\ DOMAIN Journal = Journaled /\ Journaled \subseteq Times
  BY JournalTyped DEF IInv, Types, RowsTyped
<1>2. Journal' = Journal \/ \A u \in Journaled : Alike(Journal, Journal', u)
  BY JournalStays
<1>3. CASE \A u \in Journaled : Alike(Journal, Journal', u)
<2>1. ASSUME NEW st, Tracks(st, Journal) PROVE Tracks(st, Journal')
<3>1. st.last \in Journaled
  BY <1>1, <2>1 DEF Tracks
<3> QED
  BY <1>1, <1>3, <2>1, <3>1, TracksKept
<2>2. ASSUME NEW u \in Journaled, NEW s, Stands(Journal, u, s) PROVE Stands(Journal', u, s)
<3>1. Alike(Journal, Journal', u) /\ u \in Times
  BY <1>1, <1>3
<3> QED
  BY <2>2, <3>1, StandsKept
<2> QED
  BY <2>1, <2>2
<1>4. CASE Journal' = Journal
  BY <1>4, Zenon
<1> QED
  BY <1>2, <1>3, <1>4
-----------------------------------------------------------------------------
(* What was confirmed.                                                      *)

LEMMA ToldStays ==
    ASSUME IInv, [Next]_vars, ~env.late, WindowSeen, WindowTold
    PROVE  WindowTold'
<1>1. DOMAIN alerts'.receipts["INACTIVITY"] \subseteq DOMAIN alerts.receipts["INACTIVITY"] \union
        (IF task.pc = "writeInactivity" /\ task.inactivity = "CONFIRMED" THEN {Current} ELSE {})
<2>1. CASE UNCHANGED alerts
  BY <2>1, Zenon
<2>2. CASE WriteSpeeding /\ ~UNCHANGED alerts
<3> DEFINE r == Process(alerts, "SPEEDING", task.speeding.status, Current,
                        task.speeding.streak, task.speeding.confirmedAt)
<3>1. r.ok /\ alerts' = r.alerts /\ task.pc = "writeSpeeding"
  BY <2>2 DEF WriteSpeeding
<3>2. AlertsTyped(alerts) /\ AlertsAgree(alerts) /\ task.speeding.streak \in Nat /\ RowsTyped /\ TaskKnows
  BY DEF IInv, Types, WorkTyped
<3>3. Current \in Times
  BY <3>1, <3>2, CurrentIs
<3>4. Effect(alerts, alerts', "SPEEDING", Current, task.speeding.streak)
  BY <3>1, <3>2, <3>3, TwoKinds, ProcessEffect
<3>5. alerts'.receipts["INACTIVITY"] = alerts.receipts["INACTIVITY"]
  BY <3>4, TwoKinds, EffectReceipts
<3> QED
  BY <3>5, Zenon
<2>3. CASE WriteInactivity /\ ~UNCHANGED alerts
<3> DEFINE r == Process(alerts, "INACTIVITY", task.inactivity, Current, 0, 0)
<3>1. r.ok /\ alerts' = r.alerts /\ task.pc = "writeInactivity"
  BY <2>3 DEF WriteInactivity
<3>2. AlertsTyped(alerts) /\ AlertsAgree(alerts) /\ 0 \in Nat /\ RowsTyped /\ TaskKnows
  BY DEF IInv, Types, WorkTyped
<3>3. Current \in Times
  BY <3>1, <3>2, CurrentIs
<3>4. Effect(alerts, alerts', "INACTIVITY", Current, 0)
  BY <3>1, <3>2, <3>3, TwoKinds, ProcessEffect
<3>5. DOMAIN alerts'.receipts["INACTIVITY"] \subseteq DOMAIN alerts.receipts["INACTIVITY"] \union {Current}
  BY <3>4, TwoKinds, EffectReceipts
<3>6. task.inactivity # "CONFIRMED" =>
        DOMAIN alerts'.receipts["INACTIVITY"] = DOMAIN alerts.receipts["INACTIVITY"]
  BY <3>1, <3>2, <3>3, TwoKinds, OnlyConfirms
<3> QED
  BY <3>1, <3>5, <3>6
<2> QED
  BY <2>1, <2>2, <2>3 DEF Next, Handler, Redeliver, Deliver, Drain, Bootstrap, Restore, Prime,
     EvaluateSpeeding, EvaluateInactivity, Complete, Fail, LoseInsertAnswer, Restart,
     CommitSettings, NotifySettings, durable, vars
<1>2. /\ Chosen' = Chosen
      /\ \A u \in Journaled : \A s : Stands(Journal, u, s) => Stands(Journal', u, s)
  BY StandsOn, WorldStep DEF IInv, Types, Steady
<1>3. DOMAIN alerts.receipts["INACTIVITY"] \subseteq Journaled
  BY TwoKinds DEF IInv, Types, AlertsOf
<1> SUFFICES ASSUME NEW c \in DOMAIN alerts'.receipts["INACTIVITY"]
             PROVE  \E s \in Chosen : Stands(Journal', c, s)
  BY <1>2, Zenon DEF WindowTold
<1>4. CASE c \in DOMAIN alerts.receipts["INACTIVITY"]
<2>1. PICK s \in Chosen : Stands(Journal, c, s)
  BY <1>4 DEF WindowTold
<2> QED
  BY <1>2, <1>3, <1>4, <2>1
<1>5. CASE c \notin DOMAIN alerts.receipts["INACTIVITY"]
<2>1. task.pc = "writeInactivity" /\ task.inactivity = "CONFIRMED" /\ c = Current
  BY <1>1, <1>5
<2>2. PICK s \in Chosen : Stands(Journal, c, s)
  BY <2>1 DEF WindowSeen
<2>3. c \in Journaled
<3>1. Current \in Pending
  BY <2>1, CurrentIs DEF IInv, Types
<3> QED
  BY <2>1, <3>1 DEF Pending
<2> QED
  BY <1>2, <2>2, <2>3
<1> QED
  BY <1>4, <1>5
-----------------------------------------------------------------------------
(* The window goes from row to row.                                         *)

\* With fixes in order, the rows that were processed are the oldest, all of
\* them count for a replay, and the row in progress comes right after them.
LEMMA InOrderRows ==
    ASSUME IInv, ~env.late
    PROVE  /\ Eligible \subseteq Times /\ Eligible \subseteq Journaled /\ Pending \subseteq Journaled
           /\ Journaled \subseteq Times
           /\ Journaled = Eligible \union Pending
           /\ \A t \in Eligible, u \in Pending : t < u
<1>1. RowsTyped /\ RowsInOrder
  BY DEF IInv, Types, InOrderKnows
<1>2. Journaled = Eligible \union Pending
  BY <1>1 DEF RowsInOrder, Eligible, Pending, RowsTyped, Sample
<1> QED
  BY <1>1, <1>2 DEF RowsInOrder, RowsTyped

LEMMA RowInHand ==
    ASSUME IInv, ~env.late, task.pc \notin {"idle", "drain"}
    PROVE  /\ Current \in Pending /\ Current \in Journaled /\ Current \in Times
           /\ \A u \in Pending : Current <= u
           /\ \A u \in Eligible : u < Current
           /\ Latest(Eligible) < Current
           /\ Latest(Eligible \union {Current}) = Current
<1>1. /\ Current \in Pending /\ Current \in Times /\ \A u \in Pending : Current <= u
  BY CurrentIs DEF IInv, Types
<1>2. /\ Eligible \subseteq Times /\ Pending \subseteq Journaled /\ \A u \in Eligible : u < Current
  BY <1>1, InOrderRows
<1>3. Latest(Eligible) < Current
<2>1. CASE Eligible = {}
<3>1. Latest(Eligible) = 0
  BY <1>2, <2>1, LatestIs
<3> QED
  BY <1>1, <3>1 DEF Times
<2>2. CASE Eligible # {}
  BY <1>2, <2>2, LatestIs
<2> QED
  BY <2>1, <2>2
<1>4. Latest(Eligible \union {Current}) = Current
  BY <1>1, <1>2, <1>3, LatestGrows
<1> QED
  BY <1>1, <1>2, <1>3, <1>4

\* What the inactivity detector makes of the row in progress.
LEMMA RowSeen ==
    ASSUME IInv, ~env.late, WindowHeld, EvaluateInactivity
    PROVE  LET d == DetectInactivity(memory.inactivity, Observation(Current), settings) IN
           /\ d.state = NoInactivity \/ (Tracks(d.state, Journal) /\ d.state.last = Current)
           /\ d.status \in {"CONFIRMED", "ACTIVE"} => Stands(Journal, Current, settings)
<1> DEFINE st == memory.inactivity
<1>1. task.pc = "detectInactivity"
  BY DEF EvaluateInactivity
<1>2. /\ Current \in Journaled /\ Current \in Times /\ Latest(Eligible) < Current
      /\ \A u \in Pending : Current <= u
  BY <1>1, RowInHand
<1>3. Proper(Journal) /\ DOMAIN Journal = Journaled /\ Journal[Current] = Observation(Current)
  BY <1>2, JournalTyped
<1>4. Journaled = Eligible \union Pending /\ Eligible \subseteq Times /\ Journaled \subseteq Times
  BY InOrderRows
<1>5. st = NoInactivity \/ (Tracks(st, Journal) /\ st.last = Latest(Eligible))
  BY <1>1 DEF WindowHeld, Watched, Afterwards
<1>6. st.last < Current
<2>1. NoInactivity.last = 0 /\ 0 < Current
  BY <1>2 DEF NoInactivity, Times
<2> QED
  BY <1>2, <1>5, <2>1
<1>7. ASSUME st # NoInactivity, NEW u \in Between(st.last, Current) PROVE u \notin DOMAIN Journal
<2>1. u \in Nat /\ st.last < u /\ u < Current /\ st.last = Latest(Eligible)
  BY <1>5, <1>7 DEF Between
<2>2. Latest(Eligible) \in Nat /\ Current \in Nat /\ \A t \in Eligible : t <= Latest(Eligible)
  BY <1>2, <1>4, LatestIs, TimesAreNat
<2>3. u \notin Eligible
<3>1. ~(u <= Latest(Eligible))
  BY <2>1, <2>2
<3> QED
  BY <2>2, <3>1
<2>4. u \notin Pending
<3>1. ~(Current <= u)
  BY <2>1, <2>2
<3> QED
  BY <1>2, <3>1
<2> QED
  BY <1>3, <1>4, <2>3, <2>4
<1>8. settings \in Policies
  BY DEF IInv, Types, WorldTyped, Chosen, Environment
<1>9. LET d == DetectInactivity(st, Journal[Current], settings) IN
      /\ d.state = NoInactivity \/ (Tracks(d.state, Journal) /\ d.state.last = Current)
      /\ d.status \in {"CONFIRMED", "ACTIVE"} => Stands(Journal, Current, settings)
<2> HIDE DEF st
<2> QED
  BY <1>2, <1>3, <1>5, <1>6, <1>7, <1>8, DetectTracks
<1> QED
  BY <1>3, <1>9, Zenon

LEMMA SeenStays ==
    ASSUME IInv, [Next]_vars, ~env.late, WindowHeld, WindowSeen
    PROVE  WindowSeen'
<1> SUFFICES ASSUME task'.pc \in {"writeSpeeding", "writeInactivity"}, task'.inactivity = "CONFIRMED"
             PROVE  \E s \in Chosen' : Stands(Journal', Current', s)
  BY DEF WindowSeen
<1>1. /\ Chosen' = Chosen
      /\ \A u \in Journaled : \A s : Stands(Journal, u, s) => Stands(Journal', u, s)
  BY StandsOn, WorldStep DEF IInv, Types, Steady
<1>2. DOMAIN task = {"pc", "target", "rows", "snapshot", "speeding", "inactivity"}
  BY DEF IInv, Types, WorkTyped
<1>3. \/ EvaluateInactivity
      \/ /\ task.pc \in {"writeSpeeding", "writeInactivity"}
         /\ task'.inactivity = task.inactivity /\ task'.rows = task.rows
  BY <1>2, IdleIs DEF Next, Handler, Redeliver, Deliver, Begin, Drain, Bootstrap, Restore, Prime,
     EvaluateSpeeding, WriteSpeeding, WriteInactivity, Complete, Abandon, Fail,
     LoseInsertAnswer, Restart, CommitSettings, NotifySettings, FirstStep, vars
<1>4. CASE EvaluateInactivity
<2> DEFINE d == DetectInactivity(memory.inactivity, Observation(Current), settings)
<2>1. task.pc = "detectInactivity"
      /\ task' = [task EXCEPT !.pc = "writeSpeeding", !.inactivity = d.status]
  BY <1>4 DEF EvaluateInactivity
<2>2. d.status \in {"CONFIRMED", "ACTIVE"} => Stands(Journal, Current, settings)
  BY <1>4, RowSeen
<2> HIDE DEF d
<2>3. task'.inactivity = d.status /\ task'.rows = task.rows
  BY <1>2, <2>1
<2>4. Current \in Journaled /\ Current' = Current
  BY <2>1, <2>3, RowInHand DEF Current
<2>5. settings \in Chosen
  BY DEF IInv, Types, WorldTyped
<2> QED
  BY <1>1, <2>2, <2>3, <2>4, <2>5
<1>5. CASE /\ task.pc \in {"writeSpeeding", "writeInactivity"}
           /\ task'.inactivity = task.inactivity /\ task'.rows = task.rows
<2>1. Current \in Journaled /\ Current' = Current
  BY <1>5, RowInHand DEF Current
<2> QED
  BY <1>1, <1>5, <2>1 DEF WindowSeen
<1> QED
  BY <1>3, <1>4, <1>5

\* The rows a rebuilt vehicle replays are the newest, as far back as the window
\* and one row before it.
LEMMA ReplayRowsAre ==
    ASSUME RowsTyped, task.snapshot \in Policies
    PROVE  /\ ReplayRows \subseteq Eligible
           /\ \A u \in ReplayRows, v \in Eligible : u <= v => v \in ReplayRows
           /\ Latest(ReplayRows) = Latest(Eligible)
           /\ \/ ReplayRows = Eligible
              \/ \E a \in ReplayRows : /\ a < Latest(Eligible) - task.snapshot.dur
                                       /\ ReplayRows = {u \in Eligible : a <= u}
<1> DEFINE cutoff == LatestEligible - task.snapshot.dur
           before == {t \in Eligible : t < cutoff}
           after == {t \in Eligible : t >= cutoff}
<1>1. Eligible \subseteq Times /\ LatestEligible = Latest(Eligible) /\ LatestEligible \in Nat
      /\ task.snapshot.dur \in Nat
  BY RowSets, IngestionAssumption
<1>2. ReplayRows = (IF before = {} THEN {} ELSE {Max(before)}) \union after
  BY DEF ReplayRows
<1>3. cutoff \in Int /\ cutoff <= Latest(Eligible) /\ \A t \in Eligible : t \in Nat
  BY <1>1, TimesAreNat
<1>4. \A t \in Eligible : t \in before <=> ~(t \in after)
  BY <1>3
<1>5. CASE before = {}
<2>1. ReplayRows = Eligible
<3>1. before \subseteq Eligible /\ after \subseteq Eligible
  OBVIOUS
<3> HIDE DEF before, after
<3> QED
  BY <1>2, <1>4, <1>5, <3>1
<2> QED
  BY <2>1
<1>6. CASE before # {}
<2> DEFINE a == Max(before)
<2>1. before \subseteq Times /\ before \subseteq Eligible
  BY <1>1
<2>2. a \in before /\ \A t \in before : t <= a
<3> HIDE DEF before
<3> QED
  BY <1>6, <2>1, MaxIs
<2>3. ReplayRows = {a} \union after
<3> HIDE DEF before, after
<3> QED
  BY <1>2, <1>6
<2>4. a \in Eligible /\ a < cutoff /\ a \in Nat
  BY <1>3, <2>2
<2> HIDE DEF a
<2>5. ReplayRows = {u \in Eligible : a <= u}
<3>1. ASSUME NEW u \in Eligible PROVE u \in {a} \union after <=> a <= u
<4>1. CASE u \in after
<5>1. u >= cutoff /\ u \in Nat
  BY <1>3, <4>1
<5>2. a <= u
  BY <1>3, <2>4, <5>1
<5> QED
  BY <4>1, <5>2
<4>2. CASE u \in before
<5>1. u <= a /\ u \in Nat /\ u \notin after
  BY <1>3, <1>4, <2>2, <4>2
<5>2. a <= u <=> u = a
  BY <2>4, <5>1
<5> QED
  BY <5>1, <5>2
<4> QED
  BY <1>4, <4>1, <4>2
<3> QED
  BY <2>3, <2>4, <3>1
<2>6. a \in ReplayRows /\ a < Latest(Eligible) - task.snapshot.dur
  BY <1>1, <2>3, <2>4
<2>7. Latest(Eligible) \in Eligible /\ \A u \in Eligible : u <= Latest(Eligible)
  BY <1>1, <2>4, LatestIs
<2>8. Latest(Eligible) \in ReplayRows
  BY <2>4, <2>5, <2>7
<2>9. Latest(ReplayRows) = Latest(Eligible)
<3>1. ReplayRows \subseteq Times /\ \A u \in ReplayRows : u <= Latest(Eligible)
  BY <1>1, <2>5, <2>7
<3> QED
  BY <2>8, <3>1, LatestOf
<2>10. \A u \in ReplayRows, v \in Eligible : u <= v => v \in ReplayRows
<3> SUFFICES ASSUME NEW u \in Eligible, a <= u, NEW v \in Eligible, u <= v PROVE a <= v
  BY <2>5
<3> QED
  BY <1>3, <2>4
<2> QED
  BY <2>5, <2>6, <2>9, <2>10
<1> QED
  BY <1>5, <1>6

\* A rebuilt vehicle holds the window the rows it replays have.
LEMMA PrimeHolds ==
    ASSUME IInv, ~env.late, WindowHeld, Prime, Steady, WorldTyped'
    PROVE  WindowHeld'
<1> DEFINE p == Primed(NoInactivity, Fixes(ReplayRows), task.snapshot)
           past == Fixes(Eligible)
<1>1. task.pc = "prime" /\ memory.inactivity = NoInactivity /\ UNCHANGED <<journal, alerts>>
      /\ task.snapshot \in Policies
  BY DEF Prime, WindowHeld, durable
<1>2. DOMAIN memory = {"ready", "frontier", "speeding", "inactivity"}
      /\ DOMAIN task = {"pc", "target", "rows", "snapshot", "speeding", "inactivity"}
  BY DEF IInv, Types, WorkTyped
<1>3. memory'.inactivity = p /\ task'.pc = "detectSpeeding"
  BY <1>1, <1>2 DEF Prime
<1> HIDE DEF p
<1>4. /\ Eligible \subseteq Times /\ Eligible \subseteq Journaled /\ Journaled \subseteq Times
      /\ Journaled = Eligible \union Pending /\ \A t \in Eligible, u \in Pending : t < u
      /\ RowsTyped /\ Pending \subseteq Times
  BY InOrderRows, RowSets DEF IInv, Types
<1>5. /\ ReplayRows \subseteq Eligible /\ \A u \in ReplayRows, v \in Eligible : u <= v => v \in ReplayRows
      /\ Latest(ReplayRows) = Latest(Eligible)
  BY <1>1, <1>4, ReplayRowsAre
<1>6. /\ Proper(past) /\ DOMAIN past = Eligible /\ \A t \in Eligible : past[t] = Observation(t)
  BY <1>4, FixesAre
<1>7. /\ DOMAIN Fixes(ReplayRows) = ReplayRows /\ \A t \in ReplayRows : Fixes(ReplayRows)[t] = Observation(t)
  BY <1>4, <1>5, FixesAre
<1>8. Proper(Journal) /\ DOMAIN Journal = Journaled /\ \A t \in Journaled : Journal[t] = Observation(t)
  BY JournalTyped
<1> HIDE DEF past
<1>9. p = NoInactivity \/ (Tracks(p, past) /\ p.last = Latest(Eligible))
<2> DEFINE part == Fixes(ReplayRows)
<2>1. /\ DOMAIN part \subseteq DOMAIN past /\ \A t \in DOMAIN part : part[t] = past[t]
      /\ \A u \in DOMAIN part, v \in DOMAIN past : u <= v => v \in DOMAIN part
      /\ Latest(DOMAIN part) = Latest(Eligible)
  BY <1>5, <1>6, <1>7
<2> HIDE DEF part
<2>2. LET q == Primed(NoInactivity, part, task.snapshot) IN
      q = NoInactivity \/ (Tracks(q, past) /\ q.last = Latest(DOMAIN part))
  BY <1>1, <1>6, <2>1, PrimedTracks
<2> QED
  BY <2>1, <2>2 DEF p, part
<1>10. ASSUME Tracks(p, past), p.last = Latest(Eligible) PROVE Tracks(p, Journal)
<2>1. p.last \in Eligible /\ p.last \in Times /\ \A u \in Pending : p.last < u
  BY <1>4, <1>6, <1>10 DEF Tracks
<2>2. ASSUME NEW t \in 1..p.last PROVE t \notin Pending
<3>1. t \in Nat /\ p.last \in Nat /\ t <= p.last /\ \A u \in Pending : u \in Nat
  BY <1>4, <2>1, TimesAreNat
<3> QED
  BY <2>1, <3>1
<2>3. \A t \in 1..p.last : t \in Journaled <=> t \in Eligible
  BY <1>4, <2>2
<2>4. Alike(past, Journal, p.last)
  BY <1>4, <1>6, <1>8, <2>3 DEF Alike
<2> QED
  BY <1>6, <1>10, <2>4, TracksKept
<1>11. Journal' = Journal /\ Eligible' = Eligible
<2>1. Journaled' = Journaled /\ Eligible' = Eligible /\ \A t : Observation(t)' = Observation(t)
  BY <1>1, SameRows DEF Observation
<2> QED
  BY <2>1 DEF Journal, Fixes
<1>12. Watched' = Eligible
  BY <1>3, <1>11 DEF Watched, Afterwards
<1>13. p = NoInactivity \/ (Tracks(p, Journal) /\ p.last = Latest(Eligible))
  BY <1>9, <1>10
<1> QED
  BY <1>3, <1>11, <1>12, <1>13, Zenon DEF WindowHeld

\* A step that leaves the window and the rows it has seen as they were.
LEMMA HeldKept ==
    ASSUME IInv, [Next]_vars, ~env.late, WindowHeld,
           memory'.inactivity \in {memory.inactivity, NoInactivity},
           Latest(Watched') = Latest(Watched),
           task'.pc \in {"restore", "prime"} =>
             memory'.inactivity = NoInactivity /\ task'.snapshot \in Policies
    PROVE  WindowHeld'
<1>1. \A st : Tracks(st, Journal) => Tracks(st, Journal')
  BY StandsOn
<1>2. \/ memory.inactivity = NoInactivity
      \/ Tracks(memory.inactivity, Journal) /\ memory.inactivity.last = Latest(Watched)
  BY DEF WindowHeld
<1>3. \/ memory'.inactivity = NoInactivity
      \/ Tracks(memory'.inactivity, Journal') /\ memory'.inactivity.last = Latest(Watched')
  BY <1>1, <1>2
<1> QED
  BY <1>3 DEF WindowHeld

\* A step of one task that stays before, or after, the detection of its row.
LEMMA WatchedKept ==
    ASSUME UNCHANGED journal, Afterwards' <=> Afterwards, Afterwards => task'.rows = task.rows
    PROVE  Watched' = Watched
<1>1. Eligible' = Eligible
  BY SameRows
<1>2. CASE Afterwards
  BY <1>1, <1>2 DEF Watched, Current
<1>3. CASE ~Afterwards
  BY <1>1, <1>3 DEF Watched
<1> QED
  BY <1>2, <1>3

LEMMA CompleteHolds ==
    ASSUME IInv, [Next]_vars, ~env.late, WindowHeld, Complete, Acceptable(checkpoint, memory.speeding)
    PROVE  WindowHeld'
<1> DEFINE t == Current
           eligible == ReplayEligible(t)
           left == task.rows \ {t}
<1>1. /\ task.pc = "complete"
      /\ journal' = [journal EXCEPT ![t].processed = TRUE, ![t].eligible = eligible]
      /\ memory' = [memory EXCEPT !.frontier = IF eligible THEN t ELSE @]
      /\ task' = IF left = {} THEN Idle ELSE [task EXCEPT !.rows = left, !.pc = FirstStep(memory)]
  BY DEF Complete
<1>2. t \in Pending /\ Latest(Eligible) < t
  BY <1>1, RowInHand
<1>3. eligible = TRUE
<2>1. memory.frontier = Latest(Eligible)
  BY <1>1, RowSets DEF IInv, MemoryKnows, MidRow, Types
<2> QED
  BY <1>2, <2>1 DEF ReplayEligible
<1>4. Eligible' = Eligible \union {t}
<2>1. RowsTyped
  BY DEF IInv, Types
<2> QED
  BY <1>1, <1>2, <1>3, <2>1, RowDone
<1>5. DOMAIN memory = {"ready", "frontier", "speeding", "inactivity"}
      /\ DOMAIN task = {"pc", "target", "rows", "snapshot", "speeding", "inactivity"}
  BY DEF IInv, Types, WorkTyped
<1>6. memory'.inactivity = memory.inactivity
  BY <1>1, <1>5
<1>7. task'.pc \in {"idle", FirstStep(memory)}
  BY <1>1, <1>5, IdleIs
<1>8. ~Afterwards' /\ task'.pc \notin {"restore", "prime"}
  BY <1>7 DEF Afterwards, FirstStep
<1>9. Watched = Eligible \union {t} /\ Watched' = Eligible'
  BY <1>1, <1>8 DEF Watched, Afterwards
<1> QED
  BY <1>4, <1>6, <1>8, <1>9, HeldKept

LEMMA HeldStays ==
    ASSUME IInv, [Next]_vars, ~env.late, WindowHeld
    PROVE  WindowHeld'
<1>1. DOMAIN memory = {"ready", "frontier", "speeding", "inactivity"}
      /\ DOMAIN task = {"pc", "target", "rows", "snapshot", "speeding", "inactivity"}
      /\ RowsTyped /\ settings \in Policies
  BY DEF IInv, Types, WorkTyped, WorldTyped, Chosen, Environment
<1>2. WorldTyped' /\ Steady
  BY WorldStep DEF IInv, Types
<1>3. CASE Abandon
<2>1. memory'.inactivity = NoInactivity /\ task'.pc = "idle"
  BY <1>3, IdleIs DEF Abandon, Forgotten
<2> QED
  BY <2>1 DEF WindowHeld
<1>4. ASSUME NEW t \in Times, NEW p \in env.payloads, Deliver(t, p) PROVE WindowHeld'
<2>1. /\ task.pc = "idle" /\ t \notin Journaled /\ journal' = Put(journal, t, Row(p))
      /\ memory' = memory /\ task'.pc = "drain"
  BY <1>4 DEF Deliver, Begin, Idle
<2>2. Eligible' = Eligible
  BY <1>1, <2>1, NewRow
<2>3. Watched = Eligible /\ Watched' = Eligible
  BY <2>1, <2>2 DEF Watched, Afterwards
<2> QED
  BY <2>1, <2>3, HeldKept
<1>5. ASSUME NEW t \in Times, Redeliver(t) PROVE WindowHeld'
<2>1. task.pc = "idle" /\ task'.pc = "drain" /\ memory' = memory /\ UNCHANGED journal
  BY <1>5 DEF Redeliver, Begin, Idle, durable
<2> QED
  BY <2>1, WatchedKept, HeldKept DEF Afterwards
<1>6. CASE Drain
<2>1. task.pc = "drain" /\ task'.pc = FirstStep(memory) /\ memory' = memory /\ UNCHANGED journal
  BY <1>1, <1>6 DEF Drain, durable
<2>2. task'.pc \in {"bootstrap", "detectSpeeding"}
  BY <2>1 DEF FirstStep
<2> QED
  BY <2>1, <2>2, WatchedKept, HeldKept DEF Afterwards
<1>7. CASE Bootstrap
<2>1. task.pc = "bootstrap" /\ task'.pc = "restore" /\ memory'.inactivity = NoInactivity
      /\ task'.snapshot = settings /\ UNCHANGED journal
  BY <1>1, <1>7 DEF Bootstrap, durable
<2> QED
  BY <1>1, <2>1, WatchedKept, HeldKept DEF Afterwards
<1>8. CASE Restore
<2>1. task.pc = "restore" /\ task'.pc = "prime" /\ memory'.inactivity = memory.inactivity
      /\ task'.snapshot = task.snapshot /\ UNCHANGED journal
  BY <1>1, <1>8 DEF Restore, durable
<2>2. memory.inactivity = NoInactivity /\ task.snapshot \in Policies
  BY <2>1 DEF WindowHeld
<2> QED
  BY <2>1, <2>2, WatchedKept, HeldKept DEF Afterwards
<1>9. CASE Prime
  BY <1>2, <1>9, PrimeHolds
<1>10. CASE EvaluateSpeeding
<2>1. task.pc = "detectSpeeding" /\ task'.pc = "detectInactivity"
      /\ memory'.inactivity = memory.inactivity /\ UNCHANGED journal
  BY <1>1, <1>10 DEF EvaluateSpeeding, durable
<2> QED
  BY <2>1, WatchedKept, HeldKept DEF Afterwards
<1>11. CASE EvaluateInactivity
<2> DEFINE d == DetectInactivity(memory.inactivity, Observation(Current), settings)
<2>1. task.pc = "detectInactivity" /\ memory' = [memory EXCEPT !.inactivity = d.state]
      /\ task' = [task EXCEPT !.pc = "writeSpeeding", !.inactivity = d.status] /\ UNCHANGED journal
  BY <1>11 DEF EvaluateInactivity, durable
<2>2. d.state = NoInactivity \/ (Tracks(d.state, Journal) /\ d.state.last = Current)
  BY <1>11, RowSeen
<2> HIDE DEF d
<2>3. memory'.inactivity = d.state /\ task'.pc = "writeSpeeding" /\ task'.rows = task.rows
  BY <1>1, <2>1
<2>4. Eligible' = Eligible /\ Current' = Current
  BY <2>1, <2>3, SameRows DEF Current
<2>5. Watched' = Eligible \union {Current} /\ Latest(Eligible \union {Current}) = Current
  BY <2>1, <2>3, <2>4, RowInHand DEF Watched, Afterwards
<2>6. Tracks(d.state, Journal) => Tracks(d.state, Journal')
  BY StandsOn
<2> QED
  BY <2>2, <2>3, <2>5, <2>6 DEF WindowHeld
<1>12. CASE WriteSpeeding /\ ~Abandon
<2>1. task.pc = "writeSpeeding" /\ task'.pc = "writeInactivity" /\ task'.rows = task.rows
      /\ memory' = memory /\ UNCHANGED journal
  BY <1>1, <1>12 DEF WriteSpeeding
<2> QED
  BY <2>1, WatchedKept, HeldKept DEF Afterwards
<1>13. CASE WriteInactivity /\ ~Abandon
<2>1. task.pc = "writeInactivity" /\ task'.pc = "complete" /\ task'.rows = task.rows
      /\ memory' = memory /\ UNCHANGED journal
  BY <1>1, <1>13 DEF WriteInactivity
<2> QED
  BY <2>1, WatchedKept, HeldKept DEF Afterwards
<1>14. CASE Complete /\ ~Abandon
<2>1. Acceptable(checkpoint, memory.speeding)
  BY <1>14 DEF Complete
<2> QED
  BY <1>14, <2>1, CompleteHolds
<1>15. CASE Fail \/ Restart
  BY <1>3, <1>15 DEF Fail, Restart
<1>16. CASE LoseInsertAnswer
<2>1. task.pc = "drain" /\ task'.pc = "idle" /\ memory' = memory /\ UNCHANGED journal
  BY <1>16, IdleIs DEF LoseInsertAnswer, durable
<2> QED
  BY <2>1, WatchedKept, HeldKept DEF Afterwards
<1>17. CASE (\E s \in Policies : CommitSettings(s)) \/ UNCHANGED vars
<2>1. task' = task /\ memory' = memory /\ UNCHANGED journal
  BY <1>17 DEF CommitSettings, durable, vars
<2>2. task.pc \in {"restore", "prime"} => memory.inactivity = NoInactivity /\ task.snapshot \in Policies
  BY DEF WindowHeld
<2> QED
  BY <2>1, <2>2, WatchedKept, HeldKept DEF Afterwards
<1>18. CASE NotifySettings
<2>1. task' = task /\ memory'.inactivity \in {memory.inactivity, NoInactivity} /\ UNCHANGED journal
  BY <1>1, <1>18 DEF NotifySettings, durable
<2>2. task.pc \in {"restore", "prime"} => memory.inactivity = NoInactivity /\ task.snapshot \in Policies
  BY DEF WindowHeld
<2> QED
  BY <2>1, <2>2, WatchedKept, HeldKept DEF Afterwards
<1> QED
  BY <1>3, <1>4, <1>5, <1>6, <1>7, <1>8, <1>9, <1>10, <1>11, <1>12, <1>13, <1>14, <1>15, <1>16,
     <1>17, <1>18 DEF Next, Handler

LEMMA InitWindow == Init => WindowKnows
<1> SUFFICES ASSUME Init PROVE WindowKnows
  OBVIOUS
<1>1. memory.inactivity = NoInactivity /\ task.pc = "idle"
  BY IdleIs DEF Init, Forgotten
<1>2. DOMAIN alerts.receipts["INACTIVITY"] = {}
  BY TwoKinds DEF Init, NoAlerts
<1> QED
  BY <1>1, <1>2 DEF WindowKnows, WindowHeld, WindowSeen, WindowTold

\* With fixes in order every confirmation, of a speeding and of an inactivity,
\* is one the journal's fixes justify under a policy that was chosen, also when
\* the settings change between the two detections of a row, between a detection
\* and its write, or while the detectors are rebuilt from the rows before.
THEOREM AlertsAreJustified == Spec => []AlertsJustified
<1>1. Init => WindowKnows
  BY InitWindow
<1>2. IInv /\ WindowKnows /\ [Next]_vars => WindowKnows'
<2> SUFFICES ASSUME IInv, WindowKnows, [Next]_vars, ~env'.late
             PROVE  WindowHeld' /\ WindowSeen' /\ WindowTold'
  BY DEF WindowKnows
<2>1. ~env.late
  BY WorldStep DEF IInv, Types, Steady
<2>2. WindowHeld /\ WindowSeen /\ WindowTold
  BY <2>1 DEF WindowKnows
<2> QED
  BY <2>1, <2>2, HeldStays, SeenStays, ToldStays
<1>3. IInv /\ WindowKnows => AlertsJustified
  BY ToldIs DEF WindowKnows, AlertsJustified, IInv, InOrderKnows, RowsInOrder
<1> QED
  BY <1>1, <1>2, <1>3, Invariance, PTL DEF Spec
-----------------------------------------------------------------------------
(* The rows of the window are enough to rebuild the inactivity state.       *)

\* The reference runs the inactivity rule over all rows.
LEMMA ReferenceInactivity ==
    ASSUME NEW f, NEW s
    PROVE  Reference(f, s).inactivity = Primed(NoInactivity, f, s)
<1>1. PICK run : RunsOverReference(run, f, s, MaxTime) /\ Reference(f, s) = run[MaxTime]
  BY ReferenceRuns
<1>2. PICK other : RunsOverPrimed(other, f, NoInactivity, s, MaxTime)
                   /\ Primed(NoInactivity, f, s) = other[MaxTime]
  BY PrimedRuns
<1>3. MaxTime \in Nat
  BY IngestionAssumption
<1> DEFINE S == {t \in 0..MaxTime : run[t].inactivity = other[t]}
<1>4. 0 \in S
  BY <1>1, <1>2, <1>3 DEF RunsOverReference, RunsOverPrimed, NothingSeen
<1>5. ASSUME NEW t \in 0..MaxTime, t \in S, t < MaxTime PROVE t + 1 \in S
<2>1. t \in Nat /\ t + 1 \in 0..MaxTime
  BY <1>3, <1>5
<2>2. /\ t + 1 \in DOMAIN f => run[t+1] = ReferenceStep(run[t], f[t+1], s)
      /\ t + 1 \notin DOMAIN f => run[t+1] = run[t]
  BY <1>1, <2>1, ReferenceNext
<2>3. /\ t + 1 \in DOMAIN f => other[t+1] = DetectInactivity(other[t], f[t+1], s).state
      /\ t + 1 \notin DOMAIN f => other[t+1] = other[t]
  BY <1>2, <2>1, PrimedNext
<2>4. ReferenceStep(run[t], f[t+1], s).inactivity = DetectInactivity(run[t].inactivity, f[t+1], s).state
  BY DEF ReferenceStep
<2> QED
  BY <1>5, <2>1, <2>2, <2>3, <2>4
<1>6. MaxTime \in S
<2>1. 0..MaxTime \subseteq S
<3> HIDE DEF S
<3> QED
  BY <1>3, <1>4, <1>5, Climb
<2> QED
  BY <1>3, <2>1
<1> QED
  BY <1>1, <1>2, <1>6

\* A replay from a row on and one of all rows: the same state, or the shorter
\* history still reaches back to its first row.
Near(p, r, s, a) ==
    \/ p = r
    \/ /\ IsWindow(p) /\ IsWindow(r) /\ p.last = r.last
       /\ p.dist = s.dist /\ r.dist = s.dist /\ p.dur = s.dur /\ r.dur = s.dur
       /\ EndOf(p.history, r.history)
       /\ p.history[1].at = a /\ a > p.last - s.dur

LEMMA NearNext ==
    ASSUME NEW p, NEW r, NEW s \in Policies, NEW a \in Times, Near(p, r, s, a),
           NEW obs, obs.at \in Times, obs.pos \in Int, obs.at > p.last
    PROVE  Near(DetectInactivity(p, obs, s).state, DetectInactivity(r, obs, s).state, s, a)
<1> DEFINE d == DetectInactivity(p, obs, s)
           e == DetectInactivity(r, obs, s)
           x == [at |-> obs.at, pos |-> obs.pos]
           c == obs.at - s.dur
<1>1. CASE p = r
  BY <1>1 DEF Near
<1>2. CASE ~(p = r)
<2>1. /\ IsWindow(p) /\ IsWindow(r) /\ p.last = r.last
      /\ p.dist = s.dist /\ r.dist = s.dist /\ p.dur = s.dur /\ r.dur = s.dur
      /\ EndOf(p.history, r.history)
      /\ p.history[1].at = a /\ a > p.last - s.dur
  BY <1>2 DEF Near
<2>2. s.dur \in Nat \ {0} /\ obs.at \in Nat /\ a \in Nat /\ c \in Int /\ x \in Place
  BY IngestionAssumption, TimesAreNat DEF Place
<2>3. p # NoInactivity /\ r # NoInactivity
  BY <2>1 DEF IsWindow, NoInactivity
<2>4. /\ ~s.idleOn => d = [state |-> NoInactivity, status |-> "IGNORED"]
      /\ s.idleOn /\ Restarts(p, obs, s) =>
            d = [state |-> StartWindow(obs, s), status |-> "COLLECTING"]
      /\ s.idleOn /\ ~Restarts(p, obs, s) => GoesOn(p, obs, s, d)
  BY <2>1, InactivitySeen
<2>5. /\ ~s.idleOn => e = [state |-> NoInactivity, status |-> "IGNORED"]
      /\ s.idleOn /\ Restarts(r, obs, s) =>
            e = [state |-> StartWindow(obs, s), status |-> "COLLECTING"]
      /\ s.idleOn /\ ~Restarts(r, obs, s) => GoesOn(r, obs, s, e)
  BY <2>1, InactivitySeen
<2>6. Restarts(p, obs, s) <=> Restarts(r, obs, s)
  BY <2>1, <2>3 DEF Restarts
<2> HIDE DEF d, e
<2>7. CASE ~s.idleOn \/ Restarts(p, obs, s)
<3>1. d = e
  BY <2>4, <2>5, <2>6, <2>7
<3> QED
  BY <3>1 DEF d, e, Near
<2>8. CASE s.idleOn /\ ~Restarts(p, obs, s)
<3> DEFINE hp == Append(p.history, x)
           hr == Append(r.history, x)
           tp == Trimmed(p, obs, s)
           tr == Trimmed(r, obs, s)
<3>1. GoesOn(p, obs, s, d) /\ GoesOn(r, obs, s, e)
  BY <2>4, <2>5, <2>6, <2>8
<3>2. /\ InTime(hp) /\ hp[Len(hp)].at = obs.at /\ hp[1] = p.history[1]
      /\ InTime(tp) /\ Len(tp) >= 1 /\ tp[Len(tp)].at = obs.at
      /\ tp[1].at <= c <=> p.history[1].at <= c
      /\ p.history[1].at > c => tp = hp
  BY <2>1, WindowGoesOn DEF x, c
<3>3. /\ InTime(hr) /\ hr[Len(hr)].at = obs.at
      /\ InTime(tr) /\ Len(tr) >= 1 /\ tr[Len(tr)].at = obs.at
      /\ tp = TrimHistory(hp, c) /\ tr = TrimHistory(hr, c)
<4>1. obs.at > r.last
  BY <2>1
<4> QED
  BY <2>1, <4>1, WindowGoesOn DEF x, Trimmed, c
<3>4. EndOf(hp, hr)
  BY <2>1, <2>2, EndAppended DEF IsWindow, InTime
<3>5. /\ d.state = [last |-> obs.at, history |-> tp,
                    active |-> IF tp[1].at > c THEN p.active ELSE ~TravelledReaches(tp, c, s.dist),
                    dist |-> s.dist, dur |-> s.dur]
      /\ e.state = [last |-> obs.at, history |-> tr,
                    active |-> IF tr[1].at > c THEN r.active ELSE ~TravelledReaches(tr, c, s.dist),
                    dist |-> s.dist, dur |-> s.dur]
  BY <3>1, Zenon DEF GoesOn, tp, tr, c
<3>6. p.active \in BOOLEAN /\ r.active \in BOOLEAN
  BY <2>1 DEF IsWindow
<3> HIDE DEF hp, hr, tp, tr, c, x
<3>7. c = obs.at - s.dur
  BY DEF c
<3>8. CASE a <= c
<4>1. hp[1].at <= c /\ hp[Len(hp)].at >= c
  BY <2>1, <2>2, <3>2, <3>7, <3>8
<4>2. tp = tr
  BY <2>2, <3>3, <3>4, <4>1, TrimOfEnd
<4>3. tp[1].at <= c
  BY <2>1, <3>2, <3>8
<4>4. tp[1].at \in Nat
  BY <3>2, InTimeIs
<4>5. ~(tp[1].at > c)
  BY <2>2, <4>3, <4>4
<4>6. d.state = e.state
  BY <3>5, <4>2, <4>5
<4> QED
  BY <4>6 DEF d, e, Near
<3>9. CASE ~(a <= c)
<4>1. p.history[1].at > c /\ a > c
  BY <2>1, <2>2, <3>9
<4>2. tp = hp /\ hp[1].at > c /\ hp[1].at = a
  BY <2>1, <3>2, <4>1
<4>3. hr[Len(hr)].at >= c
  BY <2>2, <3>3, <3>7
<4>4. EndOf(tp, tr)
  BY <2>2, <3>3, <3>4, <4>2, <4>3, EndSurvives
<4> DEFINE u == IF tp[1].at > c THEN p.active ELSE ~TravelledReaches(tp, c, s.dist)
           v == IF tr[1].at > c THEN r.active ELSE ~TravelledReaches(tr, c, s.dist)
           dp == [last |-> obs.at, history |-> tp, active |-> u, dist |-> s.dist, dur |-> s.dur]
           dr == [last |-> obs.at, history |-> tr, active |-> v, dist |-> s.dist, dur |-> s.dur]
<4>10. u \in BOOLEAN /\ v \in BOOLEAN
  BY <3>6
<4>11. d.state = dp /\ e.state = dr
  BY <3>5, Zenon
<4> HIDE DEF u, v
<4>5. /\ dp.last = obs.at /\ dp.history = tp /\ dp.dist = s.dist /\ dp.dur = s.dur /\ dp.active \in BOOLEAN
      /\ dp = [last |-> dp.last, history |-> dp.history, active |-> dp.active, dist |-> dp.dist, dur |-> dp.dur]
  BY <4>10
<4>6. /\ dr.last = obs.at /\ dr.history = tr /\ dr.dist = s.dist /\ dr.dur = s.dur /\ dr.active \in BOOLEAN
      /\ dr = [last |-> dr.last, history |-> dr.history, active |-> dr.active, dist |-> dr.dist, dur |-> dr.dur]
  BY <4>10
<4> HIDE DEF dp, dr
<4>7. IsWindow(dp) /\ IsWindow(dr)
  BY <2>2, <3>2, <3>3, <4>5, <4>6 DEF IsWindow
<4>8. dp.history[1].at = a /\ a > dp.last - s.dur /\ EndOf(dp.history, dr.history)
  BY <3>7, <4>1, <4>2, <4>4, <4>5, <4>6
<4>9. Near(dp, dr, s, a)
  BY <4>5, <4>6, <4>7, <4>8, Zenon DEF Near
<4> QED
  BY <4>9, <4>11 DEF d, e
<3> QED
  BY <3>8, <3>9
<2> QED
  BY <2>7, <2>8
<1> QED
  BY <1>1, <1>2

\* Where the shorter replay begins.
LEMMA NearStart ==
    ASSUME NEW all, Proper(all), NEW s \in Policies, NEW a \in DOMAIN all,
           NEW r, r = NoInactivity \/ (Tracks(r, all) /\ r.last < a)
    PROVE  Near(DetectInactivity(NoInactivity, all[a], s).state,
                DetectInactivity(r, all[a], s).state, s, a)
<1> DEFINE obs == all[a]
           d == DetectInactivity(NoInactivity, obs, s)
           e == DetectInactivity(r, obs, s)
           x == [at |-> obs.at, pos |-> obs.pos]
           c == a - s.dur
<1>1. obs.at = a /\ obs.pos \in Int /\ a \in Times /\ a \in Nat /\ a > 0 /\ x \in Place /\ x.at = a
      /\ s.dur \in Nat \ {0} /\ c \in Int
  BY IngestionAssumption, TimesAreNat DEF Proper, Place, Times
<1>2. NoInactivity.last = 0
  BY DEF NoInactivity
<1>3. /\ ~s.idleOn => d = [state |-> NoInactivity, status |-> "IGNORED"]
      /\ s.idleOn => d = [state |-> StartWindow(obs, s), status |-> "COLLECTING"]
  BY <1>1, <1>2, InactivitySeen DEF Restarts
<1>4. CASE r = NoInactivity
  BY <1>4 DEF Near
<1>5. CASE ~(r = NoInactivity)
<2>1. Tracks(r, all) /\ r.last < a /\ IsWindow(r)
  BY <1>5 DEF Tracks
<2>2. r.last \in Nat
  BY <2>1, TimesAreNat DEF Tracks, Proper
<2>3. obs.at > r.last
  BY <1>1, <2>1, <2>2
<2>4. /\ ~s.idleOn => e = [state |-> NoInactivity, status |-> "IGNORED"]
      /\ s.idleOn /\ Restarts(r, obs, s) =>
            e = [state |-> StartWindow(obs, s), status |-> "COLLECTING"]
      /\ s.idleOn /\ ~Restarts(r, obs, s) => GoesOn(r, obs, s, e)
  BY <1>1, <2>1, <2>3, InactivitySeen
<2> HIDE DEF d, e, obs
<2>5. CASE ~s.idleOn \/ Restarts(r, obs, s)
<3>1. d = e
  BY <1>3, <2>4, <2>5
<3> QED
  BY <3>1 DEF d, e, Near, obs
<2>6. CASE s.idleOn /\ ~Restarts(r, obs, s)
<3> DEFINE h == r.history
           hr == Append(h, x)
           tr == Trimmed(r, obs, s)
           one == <<x>>
<3>1. GoesOn(r, obs, s, e) /\ r.dist = s.dist /\ r.dur = s.dur
  BY <1>5, <2>4, <2>6 DEF Restarts
<3>2. /\ InTime(hr) /\ hr[Len(hr)].at = a
      /\ InTime(tr) /\ Len(tr) >= 1 /\ tr[Len(tr)].at = a /\ tr = TrimHistory(hr, c)
<4>1. obs.at \in Times /\ obs.pos \in Int
  BY <1>1
<4>2. /\ InTime(hr) /\ hr[Len(hr)].at = obs.at
      /\ InTime(tr) /\ Len(tr) >= 1 /\ tr[Len(tr)].at = obs.at
  BY <2>1, <2>3, <4>1, WindowGoesOn
<4>3. tr = TrimHistory(hr, c)
  BY <1>1 DEF Trimmed
<4> QED
  BY <1>1, <4>2, <4>3
<3>3. h \in Seq(Place)
  BY <2>1 DEF IsWindow, InTime
<3>4. EndOf(one, hr) /\ Len(one) = 1 /\ one[1] = x /\ InTime(one)
<4>1. EndOf(one, hr) /\ Len(one) = 1 /\ one[1] = x
  BY <1>1, <3>3, LastIsEnd
<4> QED
  BY <3>2, <4>1, EndInTime
<3> DEFINE u == IF tr[1].at > c THEN r.active ELSE ~TravelledReaches(tr, c, s.dist)
           dp == [last |-> a, history |-> one, active |-> FALSE, dist |-> s.dist, dur |-> s.dur]
           dr == [last |-> a, history |-> tr, active |-> u, dist |-> s.dist, dur |-> s.dur]
<3>5. d.state = dp
  BY <1>1, <1>3, <2>6 DEF StartWindow
<3>6. e.state = dr
  BY <1>1, <3>1, Zenon DEF GoesOn
<3>7. u \in BOOLEAN
  BY <2>1 DEF IsWindow
<3> HIDE DEF h, hr, tr, one, u, x
<3>8. EndOf(one, tr)
<4>1. hr[Len(hr)].at >= c /\ one[1].at > c
  BY <1>1, <3>2, <3>4
<4> QED
  BY <1>1, <3>2, <3>4, <4>1, EndSurvives
<3>9. /\ dp.last = a /\ dp.history = one /\ dp.dist = s.dist /\ dp.dur = s.dur /\ dp.active \in BOOLEAN
      /\ dp = [last |-> dp.last, history |-> dp.history, active |-> dp.active, dist |-> dp.dist, dur |-> dp.dur]
  OBVIOUS
<3>10. /\ dr.last = a /\ dr.history = tr /\ dr.dist = s.dist /\ dr.dur = s.dur /\ dr.active \in BOOLEAN
       /\ dr = [last |-> dr.last, history |-> dr.history, active |-> dr.active, dist |-> dr.dist, dur |-> dr.dur]
  BY <3>7
<3> HIDE DEF dp, dr
<3>11. IsWindow(dp) /\ IsWindow(dr)
<4>1. one[Len(one)].at = a /\ Len(one) >= 1 /\ InTime(one)
  BY <1>1, <3>4
<4>2. IsWindow(dp)
  BY <1>1, <3>9, <4>1 DEF IsWindow
<4>3. IsWindow(dr)
  BY <1>1, <3>2, <3>10 DEF IsWindow
<4> QED
  BY <4>2, <4>3
<3>12. dp.history[1].at = a /\ a > dp.last - s.dur /\ EndOf(dp.history, dr.history)
  BY <1>1, <3>4, <3>8, <3>9, <3>10
<3>13. Near(dp, dr, s, a)
  BY <3>9, <3>10, <3>11, <3>12, Zenon DEF Near
<3> QED
  BY <3>5, <3>6, <3>13 DEF d, e, obs
<2> QED
  BY <2>5, <2>6
<1> QED
  BY <1>4, <1>5

\* A replay of the window before the newest row and one row before it leaves
\* the state a replay of all rows leaves.
LEMMA WindowSuffices ==
    ASSUME NEW all, Proper(all), NEW s \in Policies, NEW a \in DOMAIN all,
           a < Latest(DOMAIN all) - s.dur,
           NEW part, DOMAIN part = {u \in DOMAIN all : a <= u}, \A t \in DOMAIN part : part[t] = all[t]
    PROVE  Primed(NoInactivity, part, s) = Primed(NoInactivity, all, s)
<1>1. PICK run : RunsOverPrimed(run, part, NoInactivity, s, MaxTime)
                 /\ Primed(NoInactivity, part, s) = run[MaxTime]
  BY PrimedRuns
<1>2. PICK other : RunsOverPrimed(other, all, NoInactivity, s, MaxTime)
                   /\ Primed(NoInactivity, all, s) = other[MaxTime]
  BY PrimedRuns
<1>3. /\ MaxTime \in Nat /\ DOMAIN all \subseteq Times /\ \A u \in DOMAIN all : u \in Nat
      /\ a \in Nat /\ a \in Times /\ a >= 1 /\ a <= MaxTime /\ a \in DOMAIN part /\ s.dur \in Nat
  BY IngestionAssumption, TimesAreNat DEF Proper, Times
<1>4. \A u \in DOMAIN part, v \in DOMAIN all : u <= v => v \in DOMAIN part
<2> SUFFICES ASSUME NEW u \in DOMAIN all, a <= u, NEW v \in DOMAIN all, u <= v PROVE a <= v
  OBVIOUS
<2> QED
  BY <1>3
<1>5. RunTracks(run, part, all) /\ RunTracks(other, all, all)
<2>1. DOMAIN part \subseteq DOMAIN all
  OBVIOUS
<2>2. RunTracks(run, part, all)
  BY <1>1, <1>4, <2>1, PrimedRunTracks
<2>3. RunTracks(other, all, all)
<3>1. \A u \in DOMAIN all, v \in DOMAIN all : u <= v => v \in DOMAIN all
  OBVIOUS
<3> QED
  BY <1>2, <3>1, PrimedRunTracks
<2> QED
  BY <2>2, <2>3
<1> DEFINE S == {t \in a..MaxTime : Near(run[t], other[t], s, a)}
           b == a - 1
<1>6. b \in Nat /\ b + 1 = a /\ b \in 0..MaxTime /\ b + 1 \in 0..MaxTime /\ 0 \in 0..MaxTime
  BY <1>3
<1>7. a \in S
<2>1. run[b] = NoInactivity
<3>1. \A t \in (0+1)..b : t \notin DOMAIN part
  BY <1>3, <1>6
<3>2. run[b] = run[0]
  BY <1>1, <1>6, <3>1, PrimedWaits
<3>3. run[0] = NoInactivity
  BY <1>1, <1>6 DEF RunsOverPrimed
<3> QED
  BY <3>2, <3>3
<2>2. run[a] = DetectInactivity(run[b], part[a], s).state
<3>1. run[b+1] = DetectInactivity(run[b], part[b+1], s).state
  BY <1>1, <1>3, <1>6, PrimedNext
<3> QED
  BY <1>6, <3>1
<2>3. other[a] = DetectInactivity(other[b], all[a], s).state
<3>1. other[b+1] = DetectInactivity(other[b], all[b+1], s).state
  BY <1>2, <1>3, <1>6, PrimedNext
<3> QED
  BY <1>6, <3>1
<2>4. other[b] = NoInactivity \/ (Tracks(other[b], all) /\ other[b].last < a)
<3>1. \/ other[b] = NoInactivity
      \/ Tracks(other[b], all) /\ other[b].last \in DOMAIN all /\ other[b].last <= b
  BY <1>5, <1>6 DEF RunTracks
<3>2. ASSUME other[b].last \in DOMAIN all, other[b].last <= b PROVE other[b].last < a
<4>1. other[b].last \in Nat
  BY <1>3, <3>2
<4> QED
  BY <1>6, <3>2, <4>1
<3> QED
  BY <3>1, <3>2
<2>5. part[a] = all[a]
  BY <1>3
<2>6. Near(run[a], other[a], s, a)
  BY <2>1, <2>2, <2>3, <2>4, <2>5, NearStart
<2> QED
  BY <1>3, <2>6
<1>8. ASSUME NEW t \in a..MaxTime, t \in S, t < MaxTime PROVE t + 1 \in S
<2>1. t \in Nat /\ a <= t /\ t + 1 \in a..MaxTime /\ t + 1 \in 0..MaxTime /\ t \in 0..MaxTime
      /\ Near(run[t], other[t], s, a)
  BY <1>3, <1>8
<2>2. /\ t + 1 \in DOMAIN part => run[t+1] = DetectInactivity(run[t], part[t+1], s).state
      /\ t + 1 \notin DOMAIN part => run[t+1] = run[t]
  BY <1>1, <2>1, PrimedNext
<2>3. /\ t + 1 \in DOMAIN all => other[t+1] = DetectInactivity(other[t], all[t+1], s).state
      /\ t + 1 \notin DOMAIN all => other[t+1] = other[t]
  BY <1>2, <2>1, PrimedNext
<2>4. t + 1 \in DOMAIN part <=> t + 1 \in DOMAIN all
  BY <1>3, <2>1
<2>5. CASE t + 1 \notin DOMAIN all
  BY <2>1, <2>2, <2>3, <2>4, <2>5
<2>6. CASE t + 1 \in DOMAIN all
<3> DEFINE obs == all[t+1]
<3>1. obs.at = t + 1 /\ obs.at \in Times /\ obs.pos \in Int /\ part[t+1] = obs
  BY <1>3, <2>4, <2>6 DEF Proper
<3>2. obs.at > run[t].last
<4>1. \/ run[t] = NoInactivity
      \/ run[t].last \in DOMAIN part /\ run[t].last <= t
  BY <1>5, <2>1 DEF RunTracks
<4>2. CASE run[t] = NoInactivity
  BY <2>1, <3>1, <4>2 DEF NoInactivity
<4>3. CASE run[t].last \in DOMAIN part /\ run[t].last <= t
<5>1. run[t].last \in Nat
  BY <1>3, <4>3
<5> QED
  BY <2>1, <3>1, <4>3, <5>1
<4> QED
  BY <4>1, <4>2, <4>3
<3> HIDE DEF obs
<3>3. Near(DetectInactivity(run[t], obs, s).state, DetectInactivity(other[t], obs, s).state, s, a)
  BY <1>3, <2>1, <3>1, <3>2, NearNext
<3>4. Near(run[t+1], other[t+1], s, a)
<4>1. run[t+1] = DetectInactivity(run[t], obs, s).state
  BY <2>2, <2>4, <2>6, <3>1
<4>2. other[t+1] = DetectInactivity(other[t], obs, s).state
  BY <2>3, <2>6 DEF obs
<4> QED
  BY <3>3, <4>1, <4>2
<3> QED
  BY <2>1, <3>4
<2> QED
  BY <2>5, <2>6
<1>9. Near(run[MaxTime], other[MaxTime], s, a)
<2>1. a..MaxTime \subseteq S
<3> HIDE DEF S
<3> QED
  BY <1>3, <1>7, <1>8, Climb
<2>2. MaxTime \in a..MaxTime
  BY <1>3
<2> QED
  BY <2>1, <2>2
<1>10. CASE run[MaxTime] = NoInactivity
  BY <1>1, <1>2, <1>9, <1>10 DEF Near, IsWindow, NoInactivity
<1>11. CASE ~(run[MaxTime] = NoInactivity)
<2> DEFINE last == run[MaxTime].last
           newest == Latest(DOMAIN all)
<2>1. last \in DOMAIN part /\ \A u \in DOMAIN part : u <= MaxTime => u <= last
  BY <1>3, <1>5, <1>6, <1>11 DEF RunTracks
<2>2. newest \in DOMAIN all /\ \A u \in DOMAIN all : u <= newest
  BY <1>3, LatestIs
<2> HIDE DEF last, newest
<2>3. newest \in Nat /\ newest <= MaxTime
  BY <1>3, <2>2 DEF Times
<2>4. newest \in DOMAIN part
  BY <1>3, <2>2, <2>3 DEF newest
<2>5. newest <= last /\ last \in Nat
  BY <1>3, <2>1, <2>3, <2>4
<2>6. ~(a > last - s.dur)
  BY <1>3, <2>3, <2>5 DEF newest
<2> QED
  BY <1>1, <1>2, <1>9, <2>6 DEF Near, last
<1> QED
  BY <1>10, <1>11
-----------------------------------------------------------------------------
(* A write at a time after everything the alerts tell of, and the same      *)
(* write again.                                                             *)

\* Everything up to a time is told, and one event of a kind is open at most.
Settled(a, at) == AlertsTyped(a) /\ AlertsAgree(a) /\ Disjoint(a) /\ Upto(a, at)

\* What is told of a kind.
Behind(a, k, last) ==
    /\ \A r \in DOMAIN a.receipts[k] : r <= last
    /\ \A e \in DOMAIN a.events[k] : e <= last /\ a.events[k][e].last <= last

LEMMA SettledIs ==
    ASSUME NEW a, NEW at \in Times, Settled(a, at), NEW last \in Nat, last < at,
           NEW k \in AlertTypes, Behind(a, k, last)
    PROVE  /\ Shaped(a) /\ at \in Nat
           /\ \A x \in DOMAIN a.receipts[k] : a.receipts[k][x] \in Evidence
           /\ \A e \in DOMAIN a.events[k] : a.events[k][e] \in Event /\ a.events[k][e].last < at
           /\ at \notin DOMAIN a.receipts[k]
           /\ \A x \in DOMAIN a.receipts[k] : a.receipts[k][x].lastSpeeding <= at
           /\ \A d, e \in OpenEvents(a, k) : d = e
<1>1. AlertsTyped(a) /\ at \in Nat
  BY DEF Settled, Times
<1>2. /\ Shaped(a) /\ \A x \in DOMAIN a.receipts[k] : a.receipts[k][x] \in Evidence
      /\ \A e \in DOMAIN a.events[k] : a.events[k][e] \in Event /\ e \in Times
  BY <1>1 DEF AlertsTyped
<1>3. \A e \in DOMAIN a.events[k] : a.events[k][e].last \in Nat /\ a.events[k][e].last < at
  BY <1>1, <1>2 DEF Behind, Event, Times
<1>4. at \notin DOMAIN a.receipts[k]
  BY <1>1 DEF Behind
<1>5. ASSUME NEW x \in DOMAIN a.receipts[k] PROVE a.receipts[k][x].lastSpeeding <= at
<2>1. /\ a.receipts[k][x].event \in DOMAIN a.events[k]
      /\ a.receipts[k][x].lastSpeeding <= a.events[k][a.receipts[k][x].event].last
  BY DEF Settled, AlertsAgree
<2>2. a.receipts[k][x].lastSpeeding \in Nat
  BY <1>2 DEF Evidence, Times
<2> QED
  BY <1>1, <1>3, <2>1, <2>2
<1>6. ASSUME NEW d \in OpenEvents(a, k), NEW e \in OpenEvents(a, k) PROVE d = e
<2>1. /\ d \in DOMAIN a.events[k] /\ a.events[k][d].status = "OPEN"
      /\ e \in DOMAIN a.events[k] /\ a.events[k][e].status = "OPEN"
  BY DEF OpenEvents
<2>2. ~(d < e) /\ ~(e < d)
  BY <2>1 DEF Settled, Disjoint
<2>3. d \in Nat /\ e \in Nat
  BY <1>2, <2>1, TimesAreNat
<2> QED
  BY <2>2, <2>3
<1> QED
  BY <1>1, <1>2, <1>3, <1>4, <1>5, <1>6

\* What a write brings an open event to.
LEMMA TouchNew ==
    ASSUME NEW a, Shaped(a), NEW k \in AlertTypes, NEW e \in OpenEvents(a, k), NEW at, NEW c,
           a.events[k][e] \in Event,
           k = "SPEEDING" => /\ c \in DOMAIN a.receipts[k] /\ a.receipts[k][c] \in Evidence
                             /\ a.receipts[k][c].event = e /\ a.receipts[k][c].lastSpeeding <= at
    PROVE  LET r == Touch(a, k, e, at, c)
               b == r.alerts IN
           /\ r.ok /\ OpenEvents(b, k) = OpenEvents(a, k) /\ b.events[k][e].last = at
           /\ DOMAIN b.receipts[k] = DOMAIN a.receipts[k]
           /\ k = "SPEEDING" => /\ b.receipts[k][c].event = e /\ b.receipts[k][c].lastSpeeding = at
                                /\ b.receipts[k][c].streak = a.receipts[k][c].streak
           /\ k # "SPEEDING" => b.receipts[k] = a.receipts[k]
<1> DEFINE r == Touch(a, k, e, at, c)
           m == [a EXCEPT !.events[k][e].last = at]
           n == [m EXCEPT !.receipts[k][c].lastSpeeding = at]
<1>1. e \in DOMAIN a.events[k] /\ a.events[k][e].status = "OPEN"
  BY DEF OpenEvents
<1>2. /\ Frame(a, m, k) /\ m.receipts[k] = a.receipts[k]
      /\ DOMAIN m.events[k] = DOMAIN a.events[k]
      /\ m.events[k][e] = [a.events[k][e] EXCEPT !.last = at]
      /\ \A x \in DOMAIN a.events[k] : x # e => m.events[k][x] = a.events[k][x]
  BY <1>1, TouchedIs, SMTT(30)
<1>3. r = IF k = "SPEEDING" THEN Done(n) ELSE Done(m)
  BY TwoKinds DEF Touch
<1> HIDE DEF m
<1>4. m.events[k][e].last = at /\ m.events[k][e].status = "OPEN"
  BY <1>1, <1>2 DEF Event
<1>5. \A x \in DOMAIN a.events[k] : m.events[k][x].status = a.events[k][x].status
  BY <1>1, <1>2, <1>4
<1>6. OpenEvents(m, k) = OpenEvents(a, k)
  BY <1>2, <1>5 DEF OpenEvents
<1>7. CASE k # "SPEEDING"
<2>1. r.ok /\ r.alerts = m
  BY <1>3, <1>7 DEF Done
<2> HIDE DEF r
<2> QED
  BY <1>2, <1>4, <1>6, <1>7, <2>1 DEF r
<1>8. CASE k = "SPEEDING"
<2>1. r.ok /\ r.alerts = n
  BY <1>3, <1>8 DEF Done
<2>2. Shaped(m) /\ c \in DOMAIN m.receipts[k]
  BY <1>2, <1>8 DEF Frame
<2> HIDE DEF r
<2>3. /\ Frame(m, n, k) /\ n.events[k] = m.events[k]
      /\ DOMAIN n.receipts[k] = DOMAIN m.receipts[k]
      /\ n.receipts[k][c] = [m.receipts[k][c] EXCEPT !.lastSpeeding = at]
      /\ \A x \in DOMAIN m.receipts[k] : x # c => n.receipts[k][x] = m.receipts[k][x]
  BY <2>2, TouchedReceiptIs, SMTT(30)
<2> HIDE DEF n
<2>4. n.receipts[k][c].event = e /\ n.receipts[k][c].lastSpeeding = at
      /\ n.receipts[k][c].streak = a.receipts[k][c].streak
  BY <1>2, <1>8, <2>3 DEF Evidence
<2>5. OpenEvents(n, k) = OpenEvents(a, k) /\ n.events[k][e].last = at
  BY <1>4, <1>6, <2>3 DEF OpenEvents
<2> QED
  BY <1>2, <1>8, <2>1, <2>3, <2>4, <2>5 DEF r
<1> QED
  BY <1>7, <1>8

\* A confirmation has its receipt, and its event is open.
LEMMA RegisterNew ==
    ASSUME NEW a, NEW at \in Times, Settled(a, at), NEW last \in Nat, last < at,
           NEW k \in AlertTypes, Behind(a, k, last),
           NEW streak \in Nat
    PROVE  LET r == Register(a, k, at, streak)
               b == r.alerts IN
           /\ r.ok /\ at \in DOMAIN b.receipts[k]
           /\ b.receipts[k][at].streak = streak /\ b.receipts[k][at].lastSpeeding = at
           /\ b.receipts[k][at].event \in OpenEvents(b, k)
<1> DEFINE r == Register(a, k, at, streak)
           open == OpenEvents(a, k)
<1>1. /\ Shaped(a) /\ at \in Nat
      /\ \A x \in DOMAIN a.receipts[k] : a.receipts[k][x] \in Evidence
      /\ \A e \in DOMAIN a.events[k] : a.events[k][e] \in Event /\ a.events[k][e].last < at
      /\ at \notin DOMAIN a.receipts[k]
  BY SettledIs
<1>2. CASE open = {}
<2> DEFINE fresh == WithEvent(a, k, at, [status |-> "OPEN", last |-> at, resolved |-> 0])
           b == WithReceipt(fresh, k, at, Receipt(k, at, streak, at))
<2>1. r = Done(b)
  BY <1>1, <1>2 DEF Register
<2>2. Frame(a, fresh, k) /\ fresh.events[k] = Put(a.events[k], at, [status |-> "OPEN", last |-> at, resolved |-> 0])
  BY <1>1, WithEventIs
<2> HIDE DEF fresh
<2>3. b.events[k] = fresh.events[k] /\ b.receipts[k] = Put(fresh.receipts[k], at, Receipt(k, at, streak, at))
  BY <2>2, WithReceiptIs DEF Frame
<2> HIDE DEF b, r
<2>4. at \in DOMAIN b.receipts[k] /\ b.receipts[k][at] = [event |-> at, streak |-> streak, lastSpeeding |-> at]
  BY <2>3 DEF Put, Receipt
<2>5. at \in OpenEvents(b, k)
  BY <2>2, <2>3 DEF Put, OpenEvents
<2> QED
  BY <2>1, <2>4, <2>5 DEF Done, r
<1>3. CASE open # {}
<2> DEFINE e == CHOOSE x \in open : TRUE
           m == WithReceipt(a, k, at, Receipt(k, e, streak, at))
<2>1. e \in open
  BY <1>3
<2>2. e \in DOMAIN a.events[k] /\ a.events[k][e] \in Event /\ a.events[k][e].last < at
  BY <1>1, <2>1 DEF OpenEvents
<2>3. ~(at <= a.events[k][e].last)
  BY <1>1, <2>2 DEF Event, Times
<2>4. r = Touch(m, k, e, at, at)
  BY <1>1, <1>3, <2>3 DEF Register
<2> HIDE DEF e, r
<2>5. Frame(a, m, k) /\ m.events[k] = a.events[k]
      /\ m.receipts[k] = Put(a.receipts[k], at, Receipt(k, e, streak, at))
  BY <1>1, WithReceiptIs
<2> HIDE DEF m
<2>6. at \in DOMAIN m.receipts[k] /\ m.receipts[k][at] = [event |-> e, streak |-> streak, lastSpeeding |-> at]
  BY <2>5 DEF Put, Receipt
<2>7. e \in Times
  BY <2>2 DEF Settled, AlertsTyped
<2>8. m.receipts[k][at] \in Evidence /\ m.receipts[k][at].event = e /\ m.receipts[k][at].lastSpeeding <= at
  BY <1>1, <2>6, <2>7 DEF Evidence
<2>9. Shaped(m) /\ OpenEvents(m, k) = open /\ m.events[k][e] \in Event
  BY <2>2, <2>5 DEF Frame, OpenEvents
<2>10. LET q == Touch(m, k, e, at, at)
           b == q.alerts IN
           /\ q.ok /\ OpenEvents(b, k) = OpenEvents(m, k) /\ b.events[k][e].last = at
           /\ DOMAIN b.receipts[k] = DOMAIN m.receipts[k]
           /\ k = "SPEEDING" => /\ b.receipts[k][at].event = e /\ b.receipts[k][at].lastSpeeding = at
                                /\ b.receipts[k][at].streak = m.receipts[k][at].streak
           /\ k # "SPEEDING" => b.receipts[k] = m.receipts[k]
  BY <2>1, <2>6, <2>8, <2>9, TouchNew
<2> DEFINE b == r.alerts
<2>11. /\ r.ok /\ OpenEvents(b, k) = open /\ at \in DOMAIN b.receipts[k]
       /\ b.receipts[k][at].event = e /\ b.receipts[k][at].lastSpeeding = at /\ b.receipts[k][at].streak = streak
<3> HIDE DEF open
<3>1. CASE k = "SPEEDING"
  BY <2>4, <2>6, <2>9, <2>10, <3>1
<3>2. CASE k # "SPEEDING"
  BY <2>4, <2>6, <2>9, <2>10, <3>2
<3> QED
  BY <3>1, <3>2
<2> QED
  BY <2>1, <2>11 DEF r
<1> QED
  BY <1>2, <1>3

\* Whatever is updated is the one event that is open.
LEMMA UpdateNew ==
    ASSUME NEW a, NEW at \in Times, Settled(a, at), NEW last \in Nat, last < at,
           NEW k \in AlertTypes, Behind(a, k, last),
           NEW c, k = "SPEEDING" => /\ c \in DOMAIN a.receipts[k]
                                    /\ a.receipts[k][c].event \in OpenEvents(a, k)
    PROVE  LET r == Update(a, k, at, c)
               b == r.alerts IN
           /\ r.ok /\ OpenEvents(b, k) = OpenEvents(a, k)
           /\ \A d \in OpenEvents(a, k) : b.events[k][d].last = at
           /\ k = "SPEEDING" =>
                /\ c \in DOMAIN b.receipts[k] /\ b.receipts[k][c].lastSpeeding = at
                /\ b.receipts[k][c].event \in OpenEvents(a, k)
<1> DEFINE r == Update(a, k, at, c)
           open == OpenEvents(a, k)
           e == CHOOSE x \in open : TRUE
<1>1. /\ Shaped(a) /\ at \in Nat
      /\ \A x \in DOMAIN a.receipts[k] : a.receipts[k][x] \in Evidence
      /\ \A d \in DOMAIN a.events[k] : a.events[k][d] \in Event /\ a.events[k][d].last < at
      /\ \A x \in DOMAIN a.receipts[k] : a.receipts[k][x].lastSpeeding <= at
      /\ \A x, y \in open : x = y
  BY SettledIs
<1>2. CASE open = {}
<2>1. r = Done(a) /\ k # "SPEEDING"
  BY <1>2 DEF Update
<2> QED
  BY <1>2, <2>1 DEF Done
<1>3. CASE open # {}
<2>1. e \in open
  BY <1>3
<2>2. e \in DOMAIN a.events[k] /\ a.events[k][e] \in Event /\ a.events[k][e].last < at
  BY <1>1, <2>1 DEF OpenEvents
<2>3. ~(at < a.events[k][e].last) /\ ~(at = a.events[k][e].last)
  BY <1>1, <2>2 DEF Event, Times
<2>4. r = Touch(a, k, e, at, c)
  BY <1>3, <2>3 DEF Update
<2> HIDE DEF e, r
<2>5. k = "SPEEDING" => /\ c \in DOMAIN a.receipts[k] /\ a.receipts[k][c] \in Evidence
                        /\ a.receipts[k][c].event = e /\ a.receipts[k][c].lastSpeeding <= at
<3> HIDE DEF open
<3> QED
  BY <1>1, <2>1 DEF open
<2>6. LET q == Touch(a, k, e, at, c)
          b == q.alerts IN
      /\ q.ok /\ OpenEvents(b, k) = OpenEvents(a, k) /\ b.events[k][e].last = at
      /\ DOMAIN b.receipts[k] = DOMAIN a.receipts[k]
      /\ k = "SPEEDING" => b.receipts[k][c].event = e /\ b.receipts[k][c].lastSpeeding = at
  BY <1>1, <2>1, <2>2, <2>5, TouchNew
<2>7. \A d \in open : d = e
  BY <1>1, <2>1
<2> HIDE DEF open
<2> QED
  BY <2>1, <2>4, <2>5, <2>6, <2>7 DEF r, open
<1> QED
  BY <1>2, <1>3

\* Nothing is open after it.
LEMMA ResolveNew ==
    ASSUME NEW a, NEW at \in Times, Settled(a, at), NEW last \in Nat, last < at,
           NEW k \in AlertTypes, Behind(a, k, last)
    PROVE  LET r == Resolve(a, k, at) IN r.ok /\ OpenEvents(r.alerts, k) = {}
<1> DEFINE r == Resolve(a, k, at)
           open == OpenEvents(a, k)
           e == CHOOSE x \in open : TRUE
           event == [status |-> "RESOLVED", last |-> at, resolved |-> at]
           b == WithEvent(a, k, e, event)
<1>1. /\ Shaped(a) /\ at \in Nat
      /\ \A d \in DOMAIN a.events[k] : a.events[k][d] \in Event /\ a.events[k][d].last < at
      /\ \A x, y \in open : x = y
  BY SettledIs
<1>2. CASE open = {}
  BY <1>2 DEF Resolve, Done
<1>3. CASE open # {}
<2>1. e \in open
  BY <1>3
<2>2. ~(at <= a.events[k][e].last)
<3>1. e \in DOMAIN a.events[k]
  BY <2>1 DEF OpenEvents
<3> HIDE DEF e
<3>2. a.events[k][e].last \in Nat /\ a.events[k][e].last < at
  BY <1>1, <3>1 DEF Event, Times
<3> QED
  BY <1>1, <3>2
<2>3. r = Done(b)
  BY <1>3, <2>2 DEF Resolve
<2> HIDE DEF e, r
<2>4. b.events[k] = Put(a.events[k], e, event)
  BY <1>1, WithEventIs
<2> HIDE DEF b
<2>5. ASSUME NEW x \in OpenEvents(b, k) PROVE FALSE
<3>1. x \in DOMAIN b.events[k] /\ b.events[k][x].status = "OPEN"
  BY <2>5 DEF OpenEvents
<3>2. x # e /\ x \in DOMAIN a.events[k] /\ a.events[k][x].status = "OPEN"
  BY <2>1, <2>4, <3>1 DEF Put, OpenEvents
<3>3. x \in open
  BY <3>2 DEF OpenEvents
<3> HIDE DEF open
<3> QED
  BY <1>1, <2>1, <3>2, <3>3
<2> QED
  BY <2>3, <2>5 DEF Done, r
<1> QED
  BY <1>2, <1>3

LEMMA UptoLater ==
    ASSUME NEW a, AlertsTyped(a), NEW last \in Nat, NEW at \in Nat, Upto(a, last), last <= at
    PROVE  Upto(a, at)
<1> SUFFICES ASSUME NEW k \in AlertTypes
             PROVE  /\ \A r \in DOMAIN a.receipts[k] : r <= at
                    /\ \A e \in DOMAIN a.events[k] :
                         e <= at /\ a.events[k][e].last <= at /\ a.events[k][e].resolved <= at
  BY DEF Upto
<1>1. /\ \A r \in DOMAIN a.receipts[k] : r \in Nat /\ r <= last
      /\ \A e \in DOMAIN a.events[k] : a.events[k][e] \in Event /\ e \in Nat
  BY TimesAreNat DEF Upto, AlertsTyped
<1>2. \A e \in DOMAIN a.events[k] : a.events[k][e].last \in Nat /\ a.events[k][e].resolved \in Nat
  BY <1>1, TimesAreNat DEF Event
<1>3. \A e \in DOMAIN a.events[k] :
        e <= last /\ a.events[k][e].last <= last /\ a.events[k][e].resolved <= last
  BY DEF Upto
<1> QED
  BY <1>1, <1>2, <1>3

LEMMA SettledLater ==
    ASSUME NEW a, NEW last \in Nat, Settled(a, last), NEW at \in Nat, last <= at
    PROVE  Settled(a, at) /\ \A k \in AlertTypes : Behind(a, k, last)
  BY UptoLater DEF Settled, Upto, Behind

\* The update of a confirmed speeding finds its event.
FindsEvent(a, k, status, c) ==
    k = "SPEEDING" /\ status = "ACTIVE" =>
        c \in DOMAIN a.receipts[k] /\ a.receipts[k][c].event \in OpenEvents(a, k)

LEMMA ProcessNew ==
    ASSUME NEW a, NEW at \in Times, Settled(a, at), NEW last \in Nat, last < at,
           NEW k \in AlertTypes, Behind(a, k, last),
           NEW streak \in Nat, NEW status, NEW c, FindsEvent(a, k, status, c)
    PROVE  LET r == Process(a, k, status, at, streak, c)
               b == r.alerts IN
           /\ r.ok /\ Settled(b, at) /\ Frame(a, b, k)
           /\ status = "CONFIRMED" =>
                at \in DOMAIN b.receipts[k] /\ b.receipts[k][at].event \in OpenEvents(b, k)
           /\ k = "SPEEDING" /\ status = "ACTIVE" =>
                c \in DOMAIN b.receipts[k] /\ b.receipts[k][c].event \in OpenEvents(b, k)
<1> DEFINE r == Process(a, k, status, at, streak, c)
           b == r.alerts
<1>1. r.ok
<2>1. CASE status = "CONFIRMED"
  BY <2>1, RegisterNew DEF Process
<2>2. CASE status = "ACTIVE"
  BY <2>2, UpdateNew DEF Process, FindsEvent
<2>3. CASE status = "CLEAR"
  BY <2>3, ResolveNew DEF Process
<2>4. CASE status \notin {"CONFIRMED", "ACTIVE", "CLEAR"}
  BY <2>4 DEF Process, Done
<2> QED
  BY <2>1, <2>2, <2>3, <2>4
<1>2. status = "CONFIRMED" =>
        at \in DOMAIN b.receipts[k] /\ b.receipts[k][at].event \in OpenEvents(b, k)
  BY RegisterNew DEF Process
<1>3. k = "SPEEDING" /\ status = "ACTIVE" =>
        c \in DOMAIN b.receipts[k] /\ b.receipts[k][c].event \in OpenEvents(b, k)
<2> SUFFICES ASSUME k = "SPEEDING", status = "ACTIVE"
             PROVE  c \in DOMAIN b.receipts[k] /\ b.receipts[k][c].event \in OpenEvents(b, k)
  OBVIOUS
<2>1. r = Update(a, k, at, c)
  BY DEF Process
<2> HIDE DEF r
<2> QED
  BY <2>1, UpdateNew DEF FindsEvent
<1>4. AlertsTyped(a) /\ AlertsAgree(a) /\ Disjoint(a) /\ Upto(a, at) /\ Shaped(a)
  BY DEF Settled, AlertsTyped
<1>5. Effect(a, b, k, at, streak)
  BY <1>1, <1>4, ProcessEffect
<1> HIDE DEF r, b
<1>6. Settled(b, at)
<2>1. AlertsTyped(b) /\ AlertsAgree(b)
  BY <1>4, <1>5, EffectTyped
<2>2. Disjoint(b) /\ Upto(b, at)
  BY <1>4, <1>5, EffectInOrder
<2> QED
  BY <2>1, <2>2 DEF Settled
<1>7. Frame(a, b, k)
<2>1. Frame(a, a, k)
  BY <1>4 DEF Frame
<2> QED
  BY <1>5, <2>1 DEF Effect
<1> QED
  BY <1>1, <1>2, <1>3, <1>6, <1>7 DEF r, b

\* A retry of a write that committed changes nothing.
LEMMA ProcessAgain ==
    ASSUME NEW a, NEW at \in Times, Settled(a, at), NEW last \in Nat, last < at,
           NEW k \in AlertTypes, Behind(a, k, last),
           NEW streak \in Nat, NEW status, NEW c, FindsEvent(a, k, status, c),
           NEW x, x.events[k] = Process(a, k, status, at, streak, c).alerts.events[k],
           x.receipts[k] = Process(a, k, status, at, streak, c).alerts.receipts[k]
    PROVE  Process(x, k, status, at, streak, c) = Done(x)
<1> DEFINE r == Process(a, k, status, at, streak, c)
           b == r.alerts
<1>1. OpenEvents(x, k) = OpenEvents(b, k)
  BY DEF OpenEvents
<1>2. CASE status = "CONFIRMED"
<2>1. r = Register(a, k, at, streak) /\ Process(x, k, status, at, streak, c) = Register(x, k, at, streak)
  BY <1>2 DEF Process
<2> HIDE DEF r
<2>2. at \in DOMAIN b.receipts[k] /\ b.receipts[k][at].streak = streak
      /\ b.receipts[k][at].lastSpeeding = at
  BY <2>1, RegisterNew
<2>3. x.receipts[k] = b.receipts[k]
  BY DEF r
<2>4. at \in Nat
  BY DEF Times
<2>5. at \in DOMAIN x.receipts[k] /\ SameEvidence(x.receipts[k][at], streak, at)
  BY <2>2, <2>3, <2>4 DEF SameEvidence
<2> QED
  BY <2>1, <2>5 DEF Register
<1>3. CASE status = "ACTIVE"
<2> DEFINE e == CHOOSE y \in OpenEvents(a, k) : TRUE
<2>1. r = Update(a, k, at, c) /\ Process(x, k, status, at, streak, c) = Update(x, k, at, c)
  BY <1>3 DEF Process
<2>2. x.receipts[k] = b.receipts[k] /\ x.events[k] = b.events[k]
  OBVIOUS
<2> HIDE DEF r
<2>3. /\ OpenEvents(b, k) = OpenEvents(a, k)
      /\ \A d \in OpenEvents(a, k) : b.events[k][d].last = at
      /\ k = "SPEEDING" =>
           /\ c \in DOMAIN b.receipts[k] /\ b.receipts[k][c].lastSpeeding = at
           /\ b.receipts[k][c].event \in OpenEvents(a, k)
  BY <1>3, <2>1, UpdateNew DEF FindsEvent
<2>4. OpenEvents(x, k) = OpenEvents(a, k)
  BY <1>1, <2>3 DEF r
<2>5. CASE OpenEvents(a, k) = {}
  BY <2>1, <2>4, <2>5 DEF Update
<2>6. CASE OpenEvents(a, k) # {}
<3>1. e \in OpenEvents(a, k) /\ e = CHOOSE y \in OpenEvents(x, k) : TRUE
  BY <2>4, <2>6
<3>2. x.events[k][e].last = at
  BY <2>2, <2>3, <3>1
<3>4. k = "INACTIVITY" \/ (/\ c \in DOMAIN x.receipts[k] /\ x.receipts[k][c].event = e
                           /\ x.receipts[k][c].lastSpeeding = at)
<4>1. \A d \in OpenEvents(a, k) : d = e
  BY <3>1, SettledIs
<4> QED
  BY <2>2, <2>3, <4>1, TwoKinds
<3>3. ~(at < at)
  BY DEF Times
<3> HIDE DEF e
<3> QED
  BY <2>1, <2>4, <2>6, <3>1, <3>2, <3>3, <3>4 DEF Update
<2> QED
  BY <2>5, <2>6
<1>4. CASE status = "CLEAR"
<2>1. r = Resolve(a, k, at) /\ Process(x, k, status, at, streak, c) = Resolve(x, k, at)
  BY <1>4 DEF Process
<2> HIDE DEF r
<2>2. OpenEvents(b, k) = {}
  BY <2>1, ResolveNew
<2>3. OpenEvents(x, k) = {}
  BY <1>1, <2>2 DEF r
<2> QED
  BY <2>1, <2>3 DEF Resolve
<1>5. CASE status \notin {"CONFIRMED", "ACTIVE", "CLEAR"}
  BY <1>5 DEF Process
<1> QED
  BY <1>2, <1>3, <1>4, <1>5
-----------------------------------------------------------------------------
(* The reference, a row at a time.                                          *)

\* What the speeding rule makes of a newer sample.
LEMMA SpeedingOutcome ==
    ASSUME NEW st, st.streak \in Nat, st.confirmed \in BOOLEAN, NEW obs, obs.at \in Nat,
           NEW s, ~(obs.at <= st.last)
    PROVE  LET d == DetectSpeeding(st, obs, s) IN
           /\ d.state.last = obs.at /\ d.state.fp = Fingerprint(s)
           /\ d.state.streak \in Nat /\ d.state.confirmed \in BOOLEAN
           /\ d.status = "CONFIRMED" => d.state.confirmedAt = obs.at
           /\ d.status = "ACTIVE" => st.confirmed /\ d.state.confirmedAt = st.confirmedAt
           /\ d.state.confirmed => d.status \in {"CONFIRMED", "ACTIVE"}
<1> DEFINE fp         == Fingerprint(s)
           ctx        == Context(s, obs.pos)
           continuing == Continues(st, ctx, fp)
           count      == IF continuing THEN st.count + 1 ELSE 1
           was        == continuing /\ st.confirmed
           newly      == ~was /\ count >= s.confirm
           next       == [last |-> obs.at, fp |-> fp, count |-> count,
                          confirmed |-> was \/ newly, ctx |-> ctx,
                          streak |-> IF continuing /\ st.streak # 0 THEN st.streak ELSE obs.at,
                          confirmedAt |-> CASE newly -> obs.at
                                            [] was   -> st.confirmedAt
                                            [] OTHER -> 0]
           d == DetectSpeeding(st, obs, s)
<1>1. CASE ~s.speedOn \/ Zone(s, obs.pos) = "UNKNOWN"
<2>1. d = [state |-> Blank(obs.at, fp), status |-> "IGNORED"]
  BY <1>1 DEF DetectSpeeding, Outcome, Skipped
<2> HIDE DEF d
<2>2. /\ d.state.last = obs.at /\ d.state.fp = Fingerprint(s) /\ d.state.streak = 0
      /\ d.state.confirmed = FALSE /\ d.status = "IGNORED"
  BY <2>1 DEF Blank
<2>3. d.state.confirmed \in BOOLEAN /\ ~d.state.confirmed
  BY <2>2, Zenon
<2>4. d.state.streak \in Nat /\ d.status \notin {"CONFIRMED", "ACTIVE"}
  BY <2>2
<2> QED
  BY <2>2, <2>3, <2>4, Zenon DEF d
<1>2. CASE ~(~s.speedOn \/ Zone(s, obs.pos) = "UNKNOWN") /\ obs.kph <= ctx.threshold
<2>1. d = [state |-> [Blank(obs.at, fp) EXCEPT !.ctx = ctx], status |-> "CLEAR"]
  BY <1>2, Zenon DEF DetectSpeeding, Outcome
<2> HIDE DEF d, ctx
<2>2. /\ d.state.last = obs.at /\ d.state.fp = Fingerprint(s) /\ d.state.streak = 0
      /\ d.state.confirmed = FALSE /\ d.status = "CLEAR"
  BY <2>1 DEF Blank
<2>3. d.state.confirmed \in BOOLEAN /\ ~d.state.confirmed
  BY <2>2, Zenon
<2>4. d.state.streak \in Nat /\ d.status \notin {"CONFIRMED", "ACTIVE"}
  BY <2>2
<2> QED
  BY <2>2, <2>3, <2>4, Zenon DEF d
<1>3. CASE ~(~s.speedOn \/ Zone(s, obs.pos) = "UNKNOWN") /\ ~(obs.kph <= ctx.threshold)
<2>1. d = [state |-> next, status |-> IF newly THEN "CONFIRMED" ELSE IF was THEN "ACTIVE" ELSE "PENDING"]
  BY <1>3, Zenon DEF DetectSpeeding, Outcome
<2>2. was \in BOOLEAN /\ newly \in BOOLEAN /\ (was => st.confirmed) /\ ~(was /\ newly)
  OBVIOUS
<2> HIDE DEF d, fp, ctx, continuing, count, was, newly
<2>3. CASE newly
<3>1. d.status = "CONFIRMED" /\ d.state.confirmedAt = obs.at /\ d.state.confirmed = TRUE
      /\ d.state.last = obs.at /\ d.state.fp = fp /\ d.state.streak \in Nat
  BY <2>1, <2>2, <2>3
<3> QED
  BY <3>1 DEF d, fp
<2>4. CASE was
<3>1. d.status = "ACTIVE" /\ d.state.confirmedAt = st.confirmedAt /\ d.state.confirmed = TRUE
      /\ d.state.last = obs.at /\ d.state.fp = fp /\ d.state.streak \in Nat /\ st.confirmed
  BY <2>1, <2>2, <2>4
<3> QED
  BY <3>1 DEF d, fp
<2>5. CASE ~newly /\ ~was
<3>1. d.status = "PENDING" /\ d.state.confirmed = FALSE
      /\ d.state.last = obs.at /\ d.state.fp = fp /\ d.state.streak \in Nat
  BY <2>1, <2>2, <2>5
<3> QED
  BY <3>1 DEF d, fp
<2> QED
  BY <2>3, <2>4, <2>5
<1> QED
  BY <1>1, <1>2, <1>3

\* The reference after rows up to a time: it stands at it, and a confirmed
\* streak goes on to update the event that is open.
SoundAt(ref, last, s) ==
    /\ Settled(ref.alerts, last)
    /\ ref.speeding.last = last /\ ref.speeding.streak \in Nat /\ ref.speeding.confirmed \in BOOLEAN
    /\ ref.speeding.confirmed =>
         /\ ref.speeding.confirmedAt \in DOMAIN ref.alerts.receipts["SPEEDING"]
         /\ ref.alerts.receipts["SPEEDING"][ref.speeding.confirmedAt].event
              \in OpenEvents(ref.alerts, "SPEEDING")
    /\ s.idleOn => ref.inactivity.last = last
    /\ ~s.idleOn => ref.inactivity = NoInactivity

\* The two writes of a row.
SpeedingWrite(x, d, at) == Process(x, "SPEEDING", d.status, at, d.state.streak, d.state.confirmedAt)
InactivityWrite(x, d, at) == Process(x, "INACTIVITY", d.status, at, 0, 0)

\* They bring the alerts to the reference's, and a retry of one that committed
\* leaves them there.
Repeats(ref, n, sp, in, at) ==
    /\ SpeedingWrite(ref.alerts, sp, at).ok /\ SpeedingWrite(ref.alerts, sp, at).alerts = n.afterSpeeding
    /\ \A x \in {n.afterSpeeding, n.alerts} :
         /\ SpeedingWrite(x, sp, at).ok /\ SpeedingWrite(x, sp, at).alerts = x
         /\ InactivityWrite(x, in, at).ok /\ InactivityWrite(x, in, at).alerts = n.alerts

LEMMA ReferenceStepIs ==
    ASSUME NEW ref, NEW obs, NEW s
    PROVE  LET n  == ReferenceStep(ref, obs, s)
               sp == DetectSpeeding(ref.speeding, obs, s)
               in == DetectInactivity(ref.inactivity, obs, s) IN
           /\ n.speeding = sp.state /\ n.inactivity = in.state
           /\ n.afterSpeeding = SpeedingWrite(ref.alerts, sp, obs.at).alerts
           /\ n.alerts = InactivityWrite(n.afterSpeeding, in, obs.at).alerts
  BY DEF ReferenceStep, SpeedingWrite, InactivityWrite

LEMMA DoneIs == \A x : Done(x).ok /\ Done(x).alerts = x
<1>1. \A x : Done(x).ok = TRUE /\ Done(x).alerts = x
  BY DEF Done
<1> QED
  BY <1>1, Zenon

\* A row behind the frontier changes nothing.
LEMMA StepBehind ==
    ASSUME NEW ref, NEW last \in Nat, NEW s, SoundAt(ref, last, s), NEW obs, obs.at \in Times, obs.at <= last
    PROVE  LET n  == ReferenceStep(ref, obs, s)
               sp == DetectSpeeding(ref.speeding, obs, s)
               in == DetectInactivity(ref.inactivity, obs, s) IN
           /\ n.speeding = ref.speeding /\ n.inactivity = ref.inactivity /\ n.alerts = ref.alerts
           /\ n.afterSpeeding = ref.alerts
           /\ Repeats(ref, n, sp, in, obs.at)
<1> DEFINE n  == ReferenceStep(ref, obs, s)
           sp == DetectSpeeding(ref.speeding, obs, s)
           in == DetectInactivity(ref.inactivity, obs, s)
<1>1. sp.state = ref.speeding /\ sp.status = "IGNORED"
  BY DEF DetectSpeeding, Outcome, SoundAt
<1>2. in.state = ref.inactivity /\ in.status = "IGNORED"
  BY DEF DetectInactivity, OutOfOrder, SoundAt
<1>3. /\ n.speeding = sp.state /\ n.inactivity = in.state
      /\ n.afterSpeeding = SpeedingWrite(ref.alerts, sp, obs.at).alerts
      /\ n.alerts = InactivityWrite(n.afterSpeeding, in, obs.at).alerts
  BY ReferenceStepIs
<1> HIDE DEF n, sp, in
<1>4. \A x : SpeedingWrite(x, sp, obs.at) = Done(x) /\ InactivityWrite(x, in, obs.at) = Done(x)
  BY <1>1, <1>2 DEF SpeedingWrite, InactivityWrite, Process
<1>5. n.afterSpeeding = ref.alerts /\ n.alerts = ref.alerts
<2>1. \A x : SpeedingWrite(x, sp, obs.at).alerts = x /\ InactivityWrite(x, in, obs.at).alerts = x
  BY <1>4, DoneIs
<2> QED
  BY <1>3, <2>1, Zenon
<1>6. Repeats(ref, n, sp, in, obs.at)
<2>1. \A x : /\ SpeedingWrite(x, sp, obs.at).ok /\ SpeedingWrite(x, sp, obs.at).alerts = x
             /\ InactivityWrite(x, in, obs.at).ok /\ InactivityWrite(x, in, obs.at).alerts = x
  BY <1>4, DoneIs, Zenon
<2> QED
  BY <1>5, <2>1, Zenon DEF Repeats
<1> QED
  BY <1>1, <1>2, <1>3, <1>5, <1>6 DEF n, sp, in

\* A newer fix is the window's last, unless the rule is off.
LEMMA InactivityAhead ==
    ASSUME NEW st, st = NoInactivity \/ IsWindow(st), NEW obs, obs.at \in Times,
           NEW s \in Policies, obs.at > st.last
    PROVE  LET d == DetectInactivity(st, obs, s) IN
           /\ s.idleOn => d.state.last = obs.at
           /\ ~s.idleOn => d.state = NoInactivity
<1> DEFINE d == DetectInactivity(st, obs, s)
<1>1. /\ ~s.idleOn => d = [state |-> NoInactivity, status |-> "IGNORED"]
      /\ s.idleOn /\ Restarts(st, obs, s) => d = [state |-> StartWindow(obs, s), status |-> "COLLECTING"]
      /\ s.idleOn /\ ~Restarts(st, obs, s) => GoesOn(st, obs, s, d)
  BY InactivitySeen
<1> HIDE DEF d
<1>2. ~s.idleOn => d.state = NoInactivity
  BY <1>1
<1>3. s.idleOn /\ Restarts(st, obs, s) => d.state.last = obs.at
<2>1. StartWindow(obs, s).last = obs.at
  BY DEF StartWindow
<2> QED
  BY <1>1, <2>1
<1>4. GoesOn(st, obs, s, d) => d.state.last = obs.at
<2> SUFFICES ASSUME GoesOn(st, obs, s, d) PROVE d.state.last = obs.at
  OBVIOUS
<2> DEFINE h == Trimmed(st, obs, s)
           a == IF h[1].at > obs.at - s.dur THEN st.active ELSE ~TravelledReaches(h, obs.at - s.dur, s.dist)
<2>1. d.state = [last |-> obs.at, history |-> h, active |-> a, dist |-> s.dist, dur |-> s.dur]
  BY Zenon DEF GoesOn
<2> HIDE DEF a, h
<2> QED
  BY <2>1
<1> QED
  BY <1>1, <1>2, <1>3, <1>4 DEF d

\* A newer row takes the reference to its time, and can be retried.
LEMMA StepAhead ==
    ASSUME NEW ref, NEW last \in Nat, NEW s \in Policies, SoundAt(ref, last, s),
           ref.inactivity = NoInactivity \/ IsWindow(ref.inactivity), ref.inactivity.last <= last,
           NEW obs, obs.at \in Times, last < obs.at
    PROVE  LET n  == ReferenceStep(ref, obs, s)
               sp == DetectSpeeding(ref.speeding, obs, s)
               in == DetectInactivity(ref.inactivity, obs, s) IN
           SoundAt(n, obs.at, s) /\ Repeats(ref, n, sp, in, obs.at) /\ n.speeding.fp = Fingerprint(s)
<1> DEFINE n  == ReferenceStep(ref, obs, s)
           sp == DetectSpeeding(ref.speeding, obs, s)
           in == DetectInactivity(ref.inactivity, obs, s)
           at == obs.at
           a  == ref.alerts
           b  == n.afterSpeeding
           c  == n.alerts
           w  == SpeedingWrite(a, sp, at)
           v  == InactivityWrite(b, in, at)
<1>1. at \in Times /\ at \in Nat /\ ref.speeding.last = last /\ ~(at <= last) /\ last <= at
  BY DEF Times, SoundAt
<1>2. /\ n.speeding = sp.state /\ n.inactivity = in.state /\ b = w.alerts /\ c = v.alerts
  BY ReferenceStepIs
<1>3. /\ sp.state.last = at /\ sp.state.fp = Fingerprint(s)
      /\ sp.state.streak \in Nat /\ sp.state.confirmed \in BOOLEAN
      /\ sp.status = "CONFIRMED" => sp.state.confirmedAt = at
      /\ sp.status = "ACTIVE" => ref.speeding.confirmed /\ sp.state.confirmedAt = ref.speeding.confirmedAt
      /\ sp.state.confirmed => sp.status \in {"CONFIRMED", "ACTIVE"}
<2>1. ref.speeding.streak \in Nat /\ ref.speeding.confirmed \in BOOLEAN /\ ~(obs.at <= ref.speeding.last)
  BY <1>1 DEF SoundAt
<2> QED
  BY <1>1, <2>1, SpeedingOutcome
<1>4. /\ s.idleOn => in.state.last = at
      /\ ~s.idleOn => in.state = NoInactivity
<2>1. at > ref.inactivity.last
<3>1. ref.inactivity.last \in Nat
<4>1. CASE ref.inactivity = NoInactivity
  BY <4>1 DEF NoInactivity
<4>2. CASE IsWindow(ref.inactivity)
  BY <4>2, InTimeIs DEF IsWindow
<4> QED
  BY <4>1, <4>2
<3> QED
  BY <1>1, <3>1
<2> QED
  BY <1>1, <2>1, InactivityAhead
<1> HIDE DEF n, sp, in
<1>5. FindsEvent(a, "SPEEDING", sp.status, sp.state.confirmedAt)
  BY <1>3 DEF FindsEvent, SoundAt
<1>6. Settled(a, at) /\ \A k \in AlertTypes : Behind(a, k, last)
  BY <1>1, SettledLater DEF SoundAt
<1>7. w = Process(a, "SPEEDING", sp.status, at, sp.state.streak, sp.state.confirmedAt)
      /\ v = Process(b, "INACTIVITY", in.status, at, 0, 0)
  BY DEF SpeedingWrite, InactivityWrite
<1> DEFINE c0 == sp.state.confirmedAt
<1>8. /\ w.ok /\ Settled(b, at) /\ Frame(a, b, "SPEEDING")
      /\ sp.status = "CONFIRMED" =>
           at \in DOMAIN b.receipts["SPEEDING"] /\ b.receipts["SPEEDING"][at].event \in OpenEvents(b, "SPEEDING")
      /\ sp.status = "ACTIVE" =>
           c0 \in DOMAIN b.receipts["SPEEDING"] /\ b.receipts["SPEEDING"][c0].event \in OpenEvents(b, "SPEEDING")
<2> DEFINE r == Process(a, "SPEEDING", sp.status, at, sp.state.streak, c0)
           q == r.alerts
<2>1. /\ r.ok /\ Settled(q, at) /\ Frame(a, q, "SPEEDING")
      /\ sp.status = "CONFIRMED" =>
           at \in DOMAIN q.receipts["SPEEDING"] /\ q.receipts["SPEEDING"][at].event \in OpenEvents(q, "SPEEDING")
      /\ sp.status = "ACTIVE" =>
           c0 \in DOMAIN q.receipts["SPEEDING"] /\ q.receipts["SPEEDING"][c0].event \in OpenEvents(q, "SPEEDING")
<3> HIDE DEF a
<3> QED
  BY <1>1, <1>3, <1>5, <1>6, TwoKinds, ProcessNew
<2> HIDE DEF r
<2>2. r = w /\ q = b
  BY <1>2, <1>7 DEF r
<2> QED
  BY <2>1, <2>2, Zenon
<1>9. Behind(b, "INACTIVITY", last)
  BY <1>6, <1>8, TwoKinds DEF Frame, Behind
<1>10. FindsEvent(b, "INACTIVITY", in.status, 0) /\ 0 \in Nat
  BY DEF FindsEvent
<1>11. v.ok /\ Settled(c, at) /\ Frame(b, c, "INACTIVITY")
<2> DEFINE r == Process(b, "INACTIVITY", in.status, at, 0, 0)
<2>1. r.ok /\ Settled(r.alerts, at) /\ Frame(b, r.alerts, "INACTIVITY")
<3> HIDE DEF b
<3> QED
  BY <1>1, <1>8, <1>9, <1>10, TwoKinds, ProcessNew
<2> QED
  BY <1>2, <1>7, <2>1
<1>12. c.events["SPEEDING"] = b.events["SPEEDING"] /\ c.receipts["SPEEDING"] = b.receipts["SPEEDING"]
  BY <1>11, TwoKinds DEF Frame
<1>13. \A x \in {b, c} : SpeedingWrite(x, sp, at) = Done(x)
<2> SUFFICES ASSUME NEW x \in {b, c} PROVE SpeedingWrite(x, sp, at) = Done(x)
  OBVIOUS
<2>1. x.events["SPEEDING"] = w.alerts.events["SPEEDING"] /\ x.receipts["SPEEDING"] = w.alerts.receipts["SPEEDING"]
  BY <1>2, <1>12
<2>2. SpeedingWrite(x, sp, at) = Process(x, "SPEEDING", sp.status, at, sp.state.streak, sp.state.confirmedAt)
  BY DEF SpeedingWrite
<2> QED
  BY <1>1, <1>3, <1>5, <1>6, <1>7, <2>1, <2>2, TwoKinds, ProcessAgain
<1>14. InactivityWrite(c, in, at) = Done(c)
<2>1. c.events["INACTIVITY"] = v.alerts.events["INACTIVITY"] /\ c.receipts["INACTIVITY"] = v.alerts.receipts["INACTIVITY"]
  BY <1>2
<2>2. InactivityWrite(c, in, at) = Process(c, "INACTIVITY", in.status, at, 0, 0)
  BY DEF InactivityWrite
<2> QED
  BY <1>1, <1>7, <1>8, <1>9, <1>10, <2>1, <2>2, TwoKinds, ProcessAgain
<1>15. Repeats(ref, n, sp, in, at)
<2>1. SpeedingWrite(ref.alerts, sp, at).ok /\ SpeedingWrite(ref.alerts, sp, at).alerts = n.afterSpeeding
  BY <1>2, <1>8
<2>2. \A x \in {b, c} : SpeedingWrite(x, sp, at).ok /\ SpeedingWrite(x, sp, at).alerts = x
  BY <1>13, DoneIs
<2>3. InactivityWrite(b, in, at).ok /\ InactivityWrite(b, in, at).alerts = c
  BY <1>2, <1>11
<2>4. InactivityWrite(c, in, at).ok /\ InactivityWrite(c, in, at).alerts = c
  BY <1>14, DoneIs
<2> QED
  BY <2>1, <2>2, <2>3, <2>4, Zenon DEF Repeats
<1>16. SoundAt(n, at, s)
<2>1. n.speeding.confirmed =>
        /\ n.speeding.confirmedAt \in DOMAIN c.receipts["SPEEDING"]
        /\ c.receipts["SPEEDING"][n.speeding.confirmedAt].event \in OpenEvents(c, "SPEEDING")
<3>1. OpenEvents(c, "SPEEDING") = OpenEvents(b, "SPEEDING")
  BY <1>12 DEF OpenEvents
<3> SUFFICES ASSUME sp.state.confirmed
             PROVE  /\ c0 \in DOMAIN b.receipts["SPEEDING"]
                    /\ b.receipts["SPEEDING"][c0].event \in OpenEvents(b, "SPEEDING")
  BY <1>2, <1>12, <3>1
<3>2. CASE sp.status = "CONFIRMED"
  BY <1>3, <1>8, <3>2
<3>3. CASE sp.status = "ACTIVE"
  BY <1>8, <3>3
<3> QED
  BY <1>3, <3>2, <3>3
<2>2. n.speeding.last = at /\ n.speeding.streak \in Nat /\ n.speeding.confirmed \in BOOLEAN
  BY <1>2, <1>3, Zenon
<2>3. (s.idleOn => n.inactivity.last = at) /\ (~s.idleOn => n.inactivity = NoInactivity)
  BY <1>2, <1>4
<2> QED
  BY <1>11, <2>1, <2>2, <2>3, Zenon DEF SoundAt
<1> QED
  BY <1>2, <1>3, <1>15, <1>16 DEF n, sp, in
-----------------------------------------------------------------------------
(* With the settings fixed, the pipeline follows the reference.             *)

\* The reference after the rows that count, and what it makes of a row more.
Seen == Reference(Fixes(Eligible), settings)
SeenNext(t) == ReferenceStep(Seen, Observation(t), settings)
SpeedingOf(t) == DetectSpeeding(Seen.speeding, Observation(t), settings)
InactivityOf(t) == DetectInactivity(Seen.inactivity, Observation(t), settings)

\* No change of the settings is under way, and late fixes come one at a time.
FixedWorld ==
    /\ changed = {}
    /\ env.late => /\ env.faults = 0
                   /\ task.pc = "idle" => Pending = {}
                   /\ task.pc # "idle" => Pending = {task.target}

\* The checkpoint is the reference's state.
SeenSound ==
    /\ SoundAt(Seen, Latest(Eligible), settings)
    /\ checkpoint = Seen.speeding
    /\ checkpoint = NoSpeeding \/ checkpoint.fp = Fingerprint(settings)

\* So is memory, with the row in progress where a detector has seen it.
SeenMemory ==
    /\ task.pc \in {"restore", "prime"} => task.snapshot = settings /\ memory.inactivity = NoInactivity
    /\ (memory.ready /\ ~MidRow) \/ task.pc = "prime" => memory.speeding = Seen.speeding
    /\ memory.ready /\ ~Afterwards => memory.inactivity = Seen.inactivity
    /\ MidRow =>
         LET d == SpeedingOf(Current) IN
         /\ memory.speeding = d.state
         /\ task.speeding = [status |-> d.status, streak |-> d.state.streak,
                             confirmedAt |-> d.state.confirmedAt]
    /\ Afterwards =>
         /\ memory.inactivity = InactivityOf(Current).state
         /\ task.inactivity = InactivityOf(Current).status

\* The alerts are the reference's, or ahead of it by writes of the next row.
SeenAlerts ==
    /\ Pending = {} => alerts = Seen.alerts
    /\ \A t \in NextRow : alerts \in {Seen.alerts, SeenNext(t).afterSpeeding, SeenNext(t).alerts}
    /\ task.pc = "writeInactivity" =>
         alerts \in {SeenNext(Current).afterSpeeding, SeenNext(Current).alerts}
    /\ task.pc = "complete" => alerts = SeenNext(Current).alerts

Follows == FixedWorld /\ SeenSound /\ SeenMemory /\ SeenAlerts

SeenKnows == env.choices = {} => Follows
-----------------------------------------------------------------------------
LEMMA SameSeen ==
    ASSUME UNCHANGED <<journal, settings>>
    PROVE  /\ Seen' = Seen
           /\ \A t : /\ SeenNext(t)' = SeenNext(t)
                     /\ SpeedingOf(t)' = SpeedingOf(t) /\ InactivityOf(t)' = InactivityOf(t)
<1>1. Eligible' = Eligible /\ settings' = settings /\ \A t : Observation(t)' = Observation(t)
  BY SameRows DEF Observation
<1>2. Fixes(Eligible)' = Fixes(Eligible)
  BY <1>1 DEF Fixes
<1>3. Seen' = Seen
  BY <1>1, <1>2, Zenon DEF Seen
<1> QED
  BY <1>1, <1>3, Zenon DEF SeenNext, SpeedingOf, InactivityOf

\* What the reference is after the rows that count.
LEMMA SeenIs ==
    ASSUME IInv
    PROVE  /\ Seen.inactivity = NoInactivity \/ (IsWindow(Seen.inactivity) /\ Seen.inactivity.last = Latest(Eligible))
           /\ Latest(Eligible) \in Nat /\ settings \in Policies
           /\ Proper(Fixes(Eligible)) /\ DOMAIN Fixes(Eligible) = Eligible
           /\ \A t \in Eligible : Fixes(Eligible)[t] = Observation(t)
           /\ Eligible \subseteq Times /\ Pending \subseteq Times
           /\ LatestEligible = Latest(Eligible)
<1>1. RowsTyped /\ settings \in Policies
  BY DEF IInv, Types, WorldTyped, Chosen, Environment
<1>2. Eligible \subseteq Times /\ Pending \subseteq Times /\ LatestEligible = Latest(Eligible)
      /\ Latest(Eligible) \in Nat /\ Eligible \subseteq Journaled
  BY <1>1, RowSets DEF Eligible
<1> DEFINE past == Fixes(Eligible)
           p == Primed(NoInactivity, past, settings)
<1>3. Proper(past) /\ DOMAIN past = Eligible /\ \A t \in Eligible : past[t] = Observation(t)
  BY <1>1, <1>2, FixesAre
<1>4. Seen.inactivity = p
  BY ReferenceInactivity DEF Seen
<1> HIDE DEF past
<1>5. /\ DOMAIN past \subseteq DOMAIN past /\ \A t \in DOMAIN past : past[t] = past[t]
      /\ \A u \in DOMAIN past, v \in DOMAIN past : u <= v => v \in DOMAIN past
  OBVIOUS
<1>6. p = NoInactivity \/ (Tracks(p, past) /\ p.last = Latest(DOMAIN past))
  BY <1>1, <1>3, <1>5, PrimedTracks
<1> HIDE DEF p
<1>7. p = NoInactivity \/ (IsWindow(p) /\ p.last = Latest(Eligible))
  BY <1>3, <1>6 DEF Tracks
<1> QED
  BY <1>1, <1>2, <1>3, <1>4, <1>7 DEF past

\* What it makes of a row to come, and of the retries of its writes.
LEMMA NextIs ==
    ASSUME IInv, SeenSound, NEW t \in Times
    PROVE  /\ SeenNext(t).speeding = SpeedingOf(t).state /\ SeenNext(t).inactivity = InactivityOf(t).state
           /\ Repeats(Seen, SeenNext(t), SpeedingOf(t), InactivityOf(t), t)
           /\ Latest(Eligible) < t =>
                SoundAt(SeenNext(t), t, settings) /\ SeenNext(t).speeding.fp = Fingerprint(settings)
           /\ ~(Latest(Eligible) < t) =>
                /\ SeenNext(t).speeding = Seen.speeding /\ SeenNext(t).inactivity = Seen.inactivity
                /\ SeenNext(t).alerts = Seen.alerts /\ SeenNext(t).afterSpeeding = Seen.alerts
<1> DEFINE obs == Observation(t)
           last == Latest(Eligible)
<1>1. obs.at = t /\ t \in Nat
  BY TimesAreNat DEF Observation
<1>2. /\ Seen.inactivity = NoInactivity \/ (IsWindow(Seen.inactivity) /\ Seen.inactivity.last = last)
      /\ last \in Nat /\ settings \in Policies
  BY SeenIs
<1>3. SoundAt(Seen, last, settings)
  BY DEF SeenSound
<1> HIDE DEF obs, last
<1>4. SeenNext(t) = ReferenceStep(Seen, obs, settings)
      /\ SpeedingOf(t) = DetectSpeeding(Seen.speeding, obs, settings)
      /\ InactivityOf(t) = DetectInactivity(Seen.inactivity, obs, settings)
  BY DEF SeenNext, SpeedingOf, InactivityOf, obs
<1>5. SeenNext(t).speeding = SpeedingOf(t).state /\ SeenNext(t).inactivity = InactivityOf(t).state
  BY <1>4, ReferenceStepIs
<1>6. CASE last < t
<2>1. Seen.inactivity.last <= last
  BY <1>2 DEF NoInactivity
<2>2. /\ SoundAt(SeenNext(t), t, settings) /\ SeenNext(t).speeding.fp = Fingerprint(settings)
      /\ Repeats(Seen, SeenNext(t), SpeedingOf(t), InactivityOf(t), t)
  BY <1>1, <1>2, <1>3, <1>4, <1>6, <2>1, StepAhead
<2> QED
  BY <1>5, <1>6, <2>2 DEF last
<1>7. CASE ~(last < t)
<2>1. obs.at <= last
  BY <1>1, <1>2, <1>7
<2>2. /\ SeenNext(t).speeding = Seen.speeding /\ SeenNext(t).inactivity = Seen.inactivity
      /\ SeenNext(t).alerts = Seen.alerts /\ SeenNext(t).afterSpeeding = Seen.alerts
      /\ Repeats(Seen, SeenNext(t), SpeedingOf(t), InactivityOf(t), t)
  BY <1>1, <1>2, <1>3, <1>4, <2>1, StepBehind
<2> QED
  BY <1>5, <1>7, <2>2 DEF last
<1> QED
  BY <1>6, <1>7

LEMMA SoundKept ==
    ASSUME SeenSound, UNCHANGED <<journal, checkpoint, settings>>
    PROVE  SeenSound'
<1>1. Seen' = Seen /\ Latest(Eligible)' = Latest(Eligible) /\ Eligible' = Eligible
  BY SameSeen, SameRows
<1> QED
  BY <1>1, Zenon DEF SeenSound

LEMMA AlertsKept ==
    ASSUME SeenAlerts, UNCHANGED <<journal, alerts, settings>>,
           task'.pc = "writeInactivity" => task.pc \in {"writeInactivity", "complete"} /\ task'.rows = task.rows,
           task'.pc = "complete" => task.pc = "complete" /\ task'.rows = task.rows
    PROVE  SeenAlerts'
<1>1. Seen' = Seen /\ \A t : SeenNext(t)' = SeenNext(t)
  BY SameSeen
<1>2. Pending' = Pending /\ NextRow' = NextRow
  BY SameRows DEF NextRow
<1>3. task'.rows = task.rows => Current' = Current
  BY DEF Current
<1>6. Pending' = {} => alerts' = Seen'.alerts
  BY <1>1, <1>2 DEF SeenAlerts
<1>7. \A t \in NextRow' : alerts' \in {Seen'.alerts, SeenNext(t)'.afterSpeeding, SeenNext(t)'.alerts}
  BY <1>1, <1>2 DEF SeenAlerts
<1>4. task'.pc = "complete" => alerts' = SeenNext(Current)'.alerts
  BY <1>1, <1>3 DEF SeenAlerts
<1>5. task'.pc = "writeInactivity" => alerts' \in {SeenNext(Current)'.afterSpeeding, SeenNext(Current)'.alerts}
  BY <1>1, <1>3 DEF SeenAlerts
<1> QED
  BY <1>4, <1>5, <1>6, <1>7, Zenon DEF SeenAlerts

\* Memory that holds nothing of a row in progress.
LEMMA MemoryKept ==
    ASSUME SeenMemory, UNCHANGED <<journal, settings>>, UNCHANGED memory,
           ~MidRow, ~MidRow', task.pc # "prime", task'.pc \notin {"restore", "prime"}
    PROVE  SeenMemory'
<1>1. Seen' = Seen
  BY SameSeen
<1>2. ~Afterwards /\ ~Afterwards'
  BY DEF MidRow, Afterwards
<1> QED
  BY <1>1, <1>2, Zenon DEF SeenMemory

\* A vehicle that was reset.
LEMMA ForgottenFollows ==
    ASSUME Follows, Abandon, UNCHANGED <<journal, alerts, checkpoint, settings>>, changed' = {},
           ~env.late, ~env'.late
    PROVE  Follows'
<1>1. task'.pc = "idle" /\ memory'.ready = FALSE
  BY IdleIs DEF Abandon, Forgotten
<1>2. ~MidRow' /\ ~Afterwards'
  BY <1>1 DEF MidRow, Afterwards
<1>3. SeenMemory'
  BY <1>1, <1>2 DEF SeenMemory
<1>4. FixedWorld'
  BY <1>1 DEF FixedWorld
<1>5. SeenSound' /\ SeenAlerts'
  BY <1>1, SoundKept, AlertsKept DEF Follows
<1> QED
  BY <1>3, <1>4, <1>5 DEF Follows

LEMMA DeliverFollows ==
    ASSUME IInv, Follows, NEW t \in Times, NEW p \in env.payloads, Deliver(t, p)
    PROVE  Follows'
<1>1. /\ task.pc = "idle" /\ t \notin Journaled /\ (env.late \/ InOrder(t))
      /\ journal' = Put(journal, t, Row(p)) /\ Begin(t)
      /\ UNCHANGED <<checkpoint, alerts, settings, changed, memory, env>>
  BY DEF Deliver
<1>2. RowsTyped /\ WorkTyped
  BY DEF IInv, Types
<1>3. /\ Journaled' = Journaled \union {t} /\ Pending' = Pending \union {t}
      /\ Eligible' = Eligible /\ \A u \in Journaled : journal'[u] = journal[u]
  BY <1>1, <1>2, NewRow
<1>4. task'.pc = "drain" /\ task'.target = t
  BY <1>1, <1>2, BeginIs
<1>5. \A u \in Journaled : Observation(u)' = Observation(u)
  BY <1>3 DEF Observation
<1>6. Pending \subseteq Journaled /\ Eligible \subseteq Journaled /\ Pending \subseteq Times
  BY SeenIs DEF Pending, Eligible
<1>7. Seen' = Seen
<2>1. Fixes(Eligible)' = Fixes(Eligible)
<3>1. [u \in Eligible' |-> Observation(u)'] = [u \in Eligible |-> Observation(u)]
  BY <1>3, <1>5, <1>6
<3> QED
  BY <3>1 DEF Fixes
<2> QED
  BY <1>1, <2>1, Zenon DEF Seen
<1>8. \A u \in Journaled : SeenNext(u)' = SeenNext(u)
  BY <1>1, <1>5, <1>7, Zenon DEF SeenNext
<1>9. FixedWorld'
<2>1. changed' = {} /\ env'.late = env.late /\ env'.faults = env.faults
  BY <1>1 DEF Follows, FixedWorld
<2>2. env.late => Pending' = {t} /\ env.faults = 0
  BY <1>1, <1>3 DEF Follows, FixedWorld
<2> QED
  BY <1>4, <2>1, <2>2 DEF FixedWorld
<1>10. SeenSound'
  BY <1>1, <1>3, <1>7, Zenon DEF Follows, SeenSound
<1>11. SeenMemory'
<2>1. ~MidRow /\ ~MidRow' /\ ~Afterwards /\ ~Afterwards'
  BY <1>1, <1>4 DEF MidRow, Afterwards
<2>2. SeenMemory /\ UNCHANGED memory /\ task'.pc \notin {"restore", "prime"}
  BY <1>1, <1>4 DEF Follows
<2> QED
  BY <1>7, <2>1, <2>2 DEF SeenMemory
<1>12. SeenAlerts'
<2>1. SeenAlerts /\ alerts' = alerts
  BY <1>1 DEF Follows
<2>2. Pending' # {}
  BY <1>3
<2>3. ASSUME NEW u \in NextRow'
      PROVE  alerts \in {Seen.alerts, SeenNext(u)'.afterSpeeding, SeenNext(u)'.alerts}
<3>1. CASE Pending = {}
  BY <2>1, <3>1 DEF SeenAlerts
<3>2. CASE Pending # {}
<4>1. InOrder(t) /\ \A v \in Pending : v \in Nat /\ v <= t /\ v # t
  BY <1>1, <1>6, <3>2, TimesAreNat DEF Follows, FixedWorld, InOrder
<4>2. Min(Pending) \in Pending /\ \A v \in Pending : Min(Pending) <= v
  BY <1>6, <3>2, MinIs
<4>3. Pending' \subseteq Times
  BY <1>3, <1>6
<4>4. Min(Pending') \in Pending' /\ \A v \in Pending' : Min(Pending') <= v
  BY <2>2, <4>3, MinIs
<4>5. Min(Pending') = Min(Pending)
<5> DEFINE a == Min(Pending)
           b == Min(Pending')
<5>1. (a \in Pending /\ a <= b) \/ b = t
  BY <1>3, <4>2, <4>4
<5>2. b <= a /\ b <= t /\ a \in Nat /\ b \in Nat /\ t \in Nat /\ a <= t /\ a # t
  BY <1>3, <4>1, <4>2, <4>3, <4>4, TimesAreNat
<5> HIDE DEF a, b
<5>3. a = b
  BY <5>1, <5>2
<5> QED
  BY <5>3 DEF a, b
<4>6. u = Min(Pending) /\ u \in NextRow /\ u \in Journaled
  BY <1>6, <2>2, <3>2, <4>2, <4>5 DEF NextRow
<4> QED
  BY <1>8, <2>1, <4>6 DEF SeenAlerts
<3> QED
  BY <3>1, <3>2
<2>4. task'.pc \notin {"writeInactivity", "complete"}
  BY <1>4
<2> QED
  BY <1>7, <2>1, <2>2, <2>3, <2>4 DEF SeenAlerts
<1> QED
  BY <1>9, <1>10, <1>11, <1>12 DEF Follows

LEMMA RedeliverFollows ==
    ASSUME IInv, Follows, NEW t \in Times, Redeliver(t)
    PROVE  Follows'
<1>1. /\ task.pc = "idle" /\ t \in Pending /\ task'.pc = "drain"
      /\ UNCHANGED <<journal, checkpoint, alerts, settings, changed, memory, env>>
  BY DEF Redeliver, Begin, Idle, durable
<1>2. ~env.late /\ changed = {}
  BY <1>1 DEF Follows, FixedWorld
<1>3. FixedWorld'
  BY <1>1, <1>2 DEF FixedWorld
<1>4. SeenSound' /\ SeenAlerts'
  BY <1>1, SoundKept, AlertsKept DEF Follows
<1>5. SeenMemory'
<2>1. ~MidRow /\ ~MidRow' /\ task.pc # "prime" /\ task'.pc \notin {"restore", "prime"}
  BY <1>1 DEF MidRow
<2> QED
  BY <1>1, <2>1, MemoryKept DEF Follows
<1> QED
  BY <1>3, <1>4, <1>5 DEF Follows

\* A step of one task that changes no row.
LEMMA WorldKept ==
    ASSUME FixedWorld, UNCHANGED <<journal, changed, env>>,
           task.pc # "idle", task'.pc # "idle", task'.target = task.target
    PROVE  FixedWorld'
  BY SameRows DEF FixedWorld

LEMMA DrainFollows ==
    ASSUME IInv, Follows, Drain
    PROVE  Follows'
<1>1. DOMAIN task = {"pc", "target", "rows", "snapshot", "speeding", "inactivity"}
  BY DEF IInv, Types, WorkTyped
<1>2. /\ task.pc = "drain" /\ task'.pc = FirstStep(memory) /\ task'.target = task.target
      /\ UNCHANGED <<journal, checkpoint, alerts, settings, changed, memory, env>>
  BY <1>1 DEF Drain, durable
<1>3. task'.pc \in {"bootstrap", "detectSpeeding"}
  BY <1>2 DEF FirstStep
<1>4. FixedWorld'
  BY <1>2, <1>3, WorldKept DEF Follows
<1>5. SeenSound' /\ SeenAlerts'
  BY <1>2, <1>3, SoundKept, AlertsKept DEF Follows
<1>6. SeenMemory'
<2>1. ~MidRow /\ ~MidRow' /\ task.pc # "prime" /\ task'.pc \notin {"restore", "prime"}
  BY <1>2, <1>3 DEF MidRow
<2> QED
  BY <1>2, <2>1, MemoryKept DEF Follows
<1> QED
  BY <1>4, <1>5, <1>6 DEF Follows

LEMMA LoseInsertAnswerFollows ==
    ASSUME IInv, Follows, LoseInsertAnswer, Steady
    PROVE  Follows'
<1>1. /\ task.pc = "drain" /\ task'.pc = "idle" /\ env.faults > 0
      /\ UNCHANGED <<journal, checkpoint, alerts, settings, changed, memory>>
  BY IdleIs DEF LoseInsertAnswer, durable
<1>2. ~env.late /\ changed = {} /\ ~env'.late
  BY <1>1 DEF Follows, FixedWorld, Steady
<1>3. FixedWorld'
  BY <1>1, <1>2 DEF FixedWorld
<1>4. SeenSound' /\ SeenAlerts'
  BY <1>1, SoundKept, AlertsKept DEF Follows
<1>5. SeenMemory'
<2>1. ~MidRow /\ ~MidRow' /\ task.pc # "prime" /\ task'.pc \notin {"restore", "prime"}
  BY <1>1 DEF MidRow
<2> QED
  BY <1>1, <2>1, MemoryKept DEF Follows
<1> QED
  BY <1>3, <1>4, <1>5 DEF Follows

LEMMA FailFollows ==
    ASSUME IInv, Follows, Fail \/ Restart, Steady
    PROVE  Follows'
<1>1. /\ env.faults > 0 /\ Abandon /\ changed' \in {changed, {}}
      /\ UNCHANGED <<journal, checkpoint, alerts, settings>>
  BY DEF Fail, Restart, durable
<1>2. ~env.late /\ changed = {} /\ ~env'.late
  BY <1>1 DEF Follows, FixedWorld, Steady
<1> QED
  BY <1>1, <1>2, ForgottenFollows
-----------------------------------------------------------------------------
(* A vehicle is rebuilt.                                                    *)

LEMMA BootstrapFollows ==
    ASSUME IInv, Follows, Bootstrap
    PROVE  Follows'
<1>1. DOMAIN task = {"pc", "target", "rows", "snapshot", "speeding", "inactivity"}
      /\ DOMAIN memory = {"ready", "frontier", "speeding", "inactivity"}
  BY DEF IInv, Types, WorkTyped
<1>2. /\ task.pc = "bootstrap" /\ task'.pc = "restore" /\ task'.target = task.target
      /\ task'.snapshot = settings /\ memory'.inactivity = NoInactivity /\ memory'.ready = memory.ready
      /\ UNCHANGED <<journal, checkpoint, alerts, settings, changed, env>>
  BY <1>1 DEF Bootstrap, durable
<1>3. FixedWorld'
  BY <1>2, WorldKept DEF Follows
<1>4. SeenSound' /\ SeenAlerts'
  BY <1>2, SoundKept, AlertsKept DEF Follows
<1>5. SeenMemory'
<2>1. ~memory.ready /\ ~MidRow' /\ ~Afterwards'
  BY <1>2 DEF IInv, MemoryKnows, MidRow, Afterwards
<2> QED
  BY <1>2, <2>1 DEF SeenMemory
<1> QED
  BY <1>3, <1>4, <1>5 DEF Follows

LEMMA RestoreFollows ==
    ASSUME IInv, Follows, Restore
    PROVE  Follows'
<1>1. DOMAIN task = {"pc", "target", "rows", "snapshot", "speeding", "inactivity"}
      /\ DOMAIN memory = {"ready", "frontier", "speeding", "inactivity"}
      /\ RowsTyped /\ CheckpointKnows
  BY DEF IInv, Types, WorkTyped
<1>2. /\ task.pc = "restore" /\ task'.pc = "prime" /\ task'.target = task.target
      /\ task'.snapshot = task.snapshot /\ memory'.speeding = Restored
      /\ memory'.inactivity = memory.inactivity /\ memory'.ready = memory.ready
      /\ UNCHANGED <<journal, checkpoint, alerts, settings, changed, env>>
  BY <1>1 DEF Restore, durable
<1>3. FixedWorld'
  BY <1>2, WorldKept DEF Follows
<1>4. SeenSound' /\ SeenAlerts'
  BY <1>2, SoundKept, AlertsKept DEF Follows
<1>5. Restored = checkpoint
<2>1. task.snapshot = settings /\ memory.speeding = NoSpeeding
  BY <1>2 DEF Follows, SeenMemory, IInv, MemoryKnows
<2>2. TrustedFrontier = checkpoint.last
  BY <1>1, FrontierIs
<2>3. CASE checkpoint = NoSpeeding
<3>1. TrustedFrontier = 0
  BY <2>2, <2>3 DEF NoSpeeding, Blank
<3> QED
  BY <2>1, <2>3, <3>1 DEF Restored
<2>4. CASE checkpoint # NoSpeeding
<3>1. checkpoint.fp = Fingerprint(task.snapshot)
  BY <2>1, <2>4 DEF Follows, SeenSound
<3> QED
  BY <2>2, <2>4, <3>1 DEF Restored
<2> QED
  BY <2>3, <2>4
<1>6. SeenMemory'
<2>1. ~memory.ready /\ ~MidRow' /\ ~Afterwards'
  BY <1>2 DEF IInv, MemoryKnows, MidRow, Afterwards
<2>2. Seen' = Seen /\ checkpoint = Seen.speeding
  BY <1>2, SameSeen DEF Follows, SeenSound
<2>3. task.snapshot = settings /\ memory.inactivity = NoInactivity
  BY <1>2 DEF Follows, SeenMemory
<2> QED
  BY <1>2, <1>5, <2>1, <2>2, <2>3 DEF SeenMemory
<1> QED
  BY <1>3, <1>4, <1>6 DEF Follows

\* The rows of the window give the window that all rows would give.
LEMMA WindowRebuilt ==
    ASSUME IInv, task.snapshot = settings
    PROVE  Primed(NoInactivity, Fixes(ReplayRows), task.snapshot) = Seen.inactivity
<1> DEFINE all == Fixes(Eligible)
           part == Fixes(ReplayRows)
<1>1. RowsTyped
  BY DEF IInv, Types
<1>2. /\ settings \in Policies /\ Proper(all) /\ DOMAIN all = Eligible
      /\ \A t \in Eligible : all[t] = Observation(t)
  BY SeenIs
<1>3. /\ ReplayRows \subseteq Eligible
      /\ \/ ReplayRows = Eligible
         \/ \E a \in ReplayRows : /\ a < Latest(Eligible) - task.snapshot.dur
                                  /\ ReplayRows = {u \in Eligible : a <= u}
  BY <1>1, <1>2, ReplayRowsAre
<1>4. ReplayRows \subseteq Journaled
  BY <1>3 DEF Eligible
<1>5. DOMAIN part = ReplayRows /\ \A t \in ReplayRows : part[t] = Observation(t)
  BY <1>1, <1>4, FixesAre
<1>6. Seen.inactivity = Primed(NoInactivity, all, settings)
  BY ReferenceInactivity DEF Seen
<1>7. CASE ReplayRows = Eligible
  BY <1>6, <1>7
<1>8. ASSUME NEW a \in ReplayRows, a < Latest(Eligible) - task.snapshot.dur,
             ReplayRows = {u \in Eligible : a <= u}
      PROVE  Primed(NoInactivity, part, settings) = Primed(NoInactivity, all, settings)
<2> HIDE DEF all, part
<2>1. a \in DOMAIN all /\ a < Latest(DOMAIN all) - settings.dur
  BY <1>2, <1>3, <1>8
<2>2. DOMAIN part = {u \in DOMAIN all : a <= u} /\ \A t \in DOMAIN part : part[t] = all[t]
  BY <1>2, <1>3, <1>5, <1>8
<2> QED
  BY <1>2, <2>1, <2>2, WindowSuffices
<1> QED
  BY <1>3, <1>6, <1>7, <1>8

LEMMA PrimeFollows ==
    ASSUME IInv, Follows, Prime
    PROVE  Follows'
<1>1. DOMAIN task = {"pc", "target", "rows", "snapshot", "speeding", "inactivity"}
      /\ DOMAIN memory = {"ready", "frontier", "speeding", "inactivity"}
  BY DEF IInv, Types, WorkTyped
<1>2. task.pc = "prime" /\ memory.inactivity = NoInactivity /\ task.snapshot = settings
      /\ memory.speeding = Seen.speeding
  BY DEF Prime, Follows, SeenMemory
<1>3. Primed(NoInactivity, Fixes(ReplayRows), task.snapshot) = Seen.inactivity
  BY <1>2, WindowRebuilt
<1>4. /\ task'.pc = "detectSpeeding" /\ task'.target = task.target
      /\ memory'.inactivity = Seen.inactivity /\ memory'.speeding = Seen.speeding
      /\ UNCHANGED <<journal, checkpoint, alerts, settings, changed, env>>
<2> DEFINE p == Primed(memory.inactivity, Fixes(ReplayRows), task.snapshot)
<2>1. memory' = [memory EXCEPT !.inactivity = p, !.frontier = TrustedFrontier, !.ready = TRUE]
      /\ task' = [task EXCEPT !.pc = "detectSpeeding"]
      /\ UNCHANGED <<journal, checkpoint, alerts, settings, changed, env>>
  BY DEF Prime, durable
<2>2. p = Seen.inactivity
  BY <1>2, <1>3
<2> HIDE DEF p
<2> QED
  BY <1>1, <1>2, <2>1, <2>2
<1>5. FixedWorld'
  BY <1>2, <1>4, WorldKept DEF Follows
<1>6. SeenSound' /\ SeenAlerts'
  BY <1>4, SoundKept, AlertsKept DEF Follows
<1>7. SeenMemory'
<2>1. ~MidRow' /\ ~Afterwards' /\ Seen' = Seen
  BY <1>4, SameSeen DEF MidRow, Afterwards
<2> QED
  BY <1>4, <2>1 DEF SeenMemory
<1> QED
  BY <1>5, <1>6, <1>7 DEF Follows
-----------------------------------------------------------------------------
(* A row is detected and written.                                           *)

LEMMA EvaluateSpeedingFollows ==
    ASSUME IInv, Follows, EvaluateSpeeding
    PROVE  Follows'
<1>1. DOMAIN task = {"pc", "target", "rows", "snapshot", "speeding", "inactivity"}
      /\ DOMAIN memory = {"ready", "frontier", "speeding", "inactivity"}
  BY DEF IInv, Types, WorkTyped
<1>2. task.pc = "detectSpeeding" /\ memory.ready /\ ~MidRow /\ ~Afterwards
  BY DEF EvaluateSpeeding, IInv, MemoryKnows, MidRow, Afterwards
<1>3. memory.speeding = Seen.speeding /\ memory.inactivity = Seen.inactivity
  BY <1>2 DEF Follows, SeenMemory
<1> DEFINE d == SpeedingOf(Current)
<1>4. /\ memory' = [memory EXCEPT !.speeding = d.state]
      /\ task' = [task EXCEPT !.pc = "detectInactivity",
                    !.speeding = [status |-> d.status, streak |-> d.state.streak,
                                  confirmedAt |-> d.state.confirmedAt]]
      /\ UNCHANGED <<journal, checkpoint, alerts, settings, changed, env>>
  BY <1>3 DEF EvaluateSpeeding, durable, SpeedingOf
<1> HIDE DEF d
<1>5. /\ task'.pc = "detectInactivity" /\ task'.target = task.target /\ task'.rows = task.rows
      /\ memory'.speeding = d.state /\ memory'.inactivity = memory.inactivity
      /\ task'.speeding = [status |-> d.status, streak |-> d.state.streak,
                           confirmedAt |-> d.state.confirmedAt]
  BY <1>1, <1>4
<1>6. FixedWorld'
  BY <1>2, <1>4, <1>5, WorldKept DEF Follows
<1>7. SeenSound' /\ SeenAlerts'
  BY <1>4, <1>5, SoundKept, AlertsKept DEF Follows
<1>8. SeenMemory'
<2>1. MidRow' /\ ~Afterwards' /\ Seen' = Seen /\ Current' = Current /\ SpeedingOf(Current)' = d
<3>1. Current' = Current
  BY <1>5 DEF Current
<3>2. SpeedingOf(Current)' = SpeedingOf(Current)
  BY <1>4, <3>1, SameSeen
<3> QED
  BY <1>4, <1>5, <3>1, <3>2, SameSeen DEF MidRow, Afterwards, d
<2> QED
  BY <1>3, <1>5, <2>1 DEF SeenMemory
<1> QED
  BY <1>6, <1>7, <1>8 DEF Follows

LEMMA EvaluateInactivityFollows ==
    ASSUME IInv, Follows, EvaluateInactivity
    PROVE  Follows'
<1>1. DOMAIN task = {"pc", "target", "rows", "snapshot", "speeding", "inactivity"}
      /\ DOMAIN memory = {"ready", "frontier", "speeding", "inactivity"}
  BY DEF IInv, Types, WorkTyped
<1>2. task.pc = "detectInactivity" /\ memory.ready /\ MidRow /\ ~Afterwards
  BY DEF EvaluateInactivity, IInv, MemoryKnows, MidRow, Afterwards
<1>3. memory.inactivity = Seen.inactivity
  BY <1>2 DEF Follows, SeenMemory
<1> DEFINE d == InactivityOf(Current)
           sp == SpeedingOf(Current)
<1>4. /\ memory' = [memory EXCEPT !.inactivity = d.state]
      /\ task' = [task EXCEPT !.pc = "writeSpeeding", !.inactivity = d.status]
      /\ UNCHANGED <<journal, checkpoint, alerts, settings, changed, env>>
  BY <1>3 DEF EvaluateInactivity, durable, InactivityOf
<1> HIDE DEF d
<1>5. /\ task'.pc = "writeSpeeding" /\ task'.target = task.target /\ task'.rows = task.rows
      /\ memory'.inactivity = d.state /\ memory'.speeding = memory.speeding
      /\ task'.speeding = task.speeding /\ task'.inactivity = d.status
  BY <1>1, <1>4
<1>6. FixedWorld'
  BY <1>2, <1>4, <1>5, WorldKept DEF Follows
<1>7. SeenSound' /\ SeenAlerts'
  BY <1>4, <1>5, SoundKept, AlertsKept DEF Follows
<1>8. SeenMemory'
<2>1. MidRow' /\ Afterwards' /\ SpeedingOf(Current)' = sp /\ InactivityOf(Current)' = d
<3>1. Current' = Current
  BY <1>5 DEF Current
<3>2. SpeedingOf(Current)' = SpeedingOf(Current) /\ InactivityOf(Current)' = InactivityOf(Current)
  BY <1>4, <3>1, SameSeen
<3> QED
  BY <1>4, <1>5, <3>1, <3>2 DEF MidRow, Afterwards, d
<2>2. memory.speeding = sp.state
      /\ task.speeding = [status |-> sp.status, streak |-> sp.state.streak,
                          confirmedAt |-> sp.state.confirmedAt]
  BY <1>2, Zenon DEF Follows, SeenMemory
<2> HIDE DEF sp
<2> QED
  BY <1>5, <2>1, <2>2 DEF SeenMemory
<1> QED
  BY <1>6, <1>7, <1>8 DEF Follows

\* The row in progress is the next row.
LEMMA NextInHand ==
    ASSUME IInv, task.pc \notin {"idle", "drain"}
    PROVE  /\ Current \in Times /\ Current \in Pending /\ Pending # {}
           /\ NextRow = {Current} /\ task.rows = {t \in Pending : t <= task.target}
<1>1. /\ Current \in Pending /\ Current \in Times /\ \A u \in Pending : Current <= u
      /\ task.rows = {t \in Pending : t <= task.target}
  BY CurrentIs DEF IInv, Types
<1>2. Pending \subseteq Times
  BY SeenIs
<1>3. Min(Pending) \in Pending /\ \A u \in Pending : Min(Pending) <= u
  BY <1>1, <1>2, MinIs
<1>4. Current = Min(Pending)
<2> DEFINE a == Min(Pending)
           b == Current
<2>1. a <= b /\ b <= a /\ a \in Nat /\ b \in Nat
  BY <1>1, <1>2, <1>3, TimesAreNat
<2> HIDE DEF a, b
<2>2. a = b
  BY <2>1
<2> QED
  BY <2>2 DEF a, b
<1> QED
  BY <1>1, <1>4 DEF NextRow

\* A write changes nothing a detector knows.
LEMMA AfterKept ==
    ASSUME SeenMemory, UNCHANGED <<journal, settings, memory>>, Afterwards, Afterwards',
           task'.rows = task.rows, task'.speeding = task.speeding, task'.inactivity = task.inactivity
    PROVE  SeenMemory'
<1>1. Current' = Current
  BY DEF Current
<1>2. SpeedingOf(Current)' = SpeedingOf(Current) /\ InactivityOf(Current)' = InactivityOf(Current)
  BY <1>1, SameSeen
<1>3. MidRow /\ MidRow' /\ task'.pc \notin {"restore", "prime"}
  BY DEF Afterwards, MidRow
<1> DEFINE sp == SpeedingOf(Current)
           d == InactivityOf(Current)
<1>4. memory.speeding = sp.state
      /\ task.speeding = [status |-> sp.status, streak |-> sp.state.streak,
                          confirmedAt |-> sp.state.confirmedAt]
  BY <1>3, Zenon DEF SeenMemory
<1>5. memory.inactivity = d.state /\ task.inactivity = d.status
  BY DEF SeenMemory
<1> HIDE DEF sp, d
<1>6. SpeedingOf(Current)' = sp /\ InactivityOf(Current)' = d
  BY <1>2 DEF sp, d
<1> QED
  BY <1>3, <1>4, <1>5, <1>6 DEF SeenMemory

LEMMA WriteSpeedingFollows ==
    ASSUME IInv, Follows, WriteSpeeding
    PROVE  Follows'
<1> DEFINE c == Current
           sp == SpeedingOf(c)
           n == SeenNext(c)
           r == Process(alerts, "SPEEDING", task.speeding.status, c, task.speeding.streak,
                        task.speeding.confirmedAt)
<1>1. DOMAIN task = {"pc", "target", "rows", "snapshot", "speeding", "inactivity"}
  BY DEF IInv, Types, WorkTyped
<1>2. task.pc = "writeSpeeding" /\ MidRow /\ Afterwards
  BY DEF WriteSpeeding, MidRow, Afterwards
<1>3. c \in Times /\ Pending # {} /\ NextRow = {c}
  BY <1>2, NextInHand
<1>4. task.speeding = [status |-> sp.status, streak |-> sp.state.streak, confirmedAt |-> sp.state.confirmedAt]
  BY <1>2, Zenon DEF Follows, SeenMemory
<1>5. Repeats(Seen, n, sp, InactivityOf(c), c)
  BY <1>3, NextIs DEF Follows
<1>6. alerts \in {Seen.alerts, n.afterSpeeding, n.alerts}
  BY <1>3, Zenon DEF Follows, SeenAlerts
<1>7. r = SpeedingWrite(alerts, sp, c)
<2> HIDE DEF sp, c
<2> QED
  BY <1>4 DEF SpeedingWrite
<1> HIDE DEF n, sp
<1>8. r.ok /\ r.alerts \in {n.afterSpeeding, n.alerts}
<2> HIDE DEF r, c
<2>1. CASE alerts = Seen.alerts
  BY <1>5, <1>7, <2>1, Zenon DEF Repeats
<2>2. CASE alerts \in {n.afterSpeeding, n.alerts}
  BY <1>5, <1>7, <2>2, Zenon DEF Repeats
<2> QED
  BY <1>6, <2>1, <2>2
<1>9. /\ alerts' = r.alerts /\ task' = [task EXCEPT !.pc = "writeInactivity"]
      /\ UNCHANGED <<journal, checkpoint, settings, changed, memory, env>>
  BY <1>8, Zenon DEF WriteSpeeding
<1> HIDE DEF r
<1>10. /\ task'.pc = "writeInactivity" /\ task'.target = task.target /\ task'.rows = task.rows
       /\ task'.speeding = task.speeding /\ task'.inactivity = task.inactivity
  BY <1>1, <1>9
<1>11. FixedWorld'
  BY <1>2, <1>9, <1>10, WorldKept DEF Follows
<1>12. SeenSound'
  BY <1>9, SoundKept DEF Follows
<1>13. SeenMemory'
  BY <1>2, <1>9, <1>10, AfterKept DEF Follows, Afterwards
<1>14. Current' = c /\ SeenNext(c)' = n /\ Seen' = Seen /\ Pending' = Pending /\ NextRow' = {c}
<2>1. Current' = c /\ NextRow' = NextRow /\ Pending' = Pending
  BY <1>9, <1>10, SameRows DEF Current, NextRow
<2>2. SeenNext(c)' = SeenNext(c) /\ Seen' = Seen
  BY <1>9, <2>1, SameSeen
<2> QED
  BY <1>3, <2>1, <2>2 DEF n
<1>15. SeenAlerts'
<2>1. alerts' \in {n.afterSpeeding, n.alerts}
  BY <1>8, <1>9
<2>2. \A t \in NextRow' : SeenNext(t)' = n
<3>1. \A t \in NextRow' : t = Current /\ SeenNext(t)' = SeenNext(t)
  BY <1>9, <1>14, SameSeen
<3> QED
  BY <3>1 DEF n
<2>3. Pending' # {} /\ task'.pc # "complete"
  BY <1>3, <1>10, <1>14
<2> QED
  BY <1>14, <2>1, <2>2, <2>3 DEF SeenAlerts
<1> QED
  BY <1>11, <1>12, <1>13, <1>15 DEF Follows

LEMMA WriteInactivityFollows ==
    ASSUME IInv, Follows, WriteInactivity
    PROVE  Follows'
<1> DEFINE c == Current
           in == InactivityOf(c)
           n == SeenNext(c)
           r == Process(alerts, "INACTIVITY", task.inactivity, c, 0, 0)
<1>1. DOMAIN task = {"pc", "target", "rows", "snapshot", "speeding", "inactivity"}
  BY DEF IInv, Types, WorkTyped
<1>2. task.pc = "writeInactivity" /\ MidRow /\ Afterwards
  BY DEF WriteInactivity, MidRow, Afterwards
<1>3. c \in Times /\ Pending # {} /\ NextRow = {c}
  BY <1>2, NextInHand
<1>4. task.inactivity = in.status
  BY <1>2, Zenon DEF Follows, SeenMemory
<1>5. Repeats(Seen, n, SpeedingOf(c), in, c)
  BY <1>3, NextIs DEF Follows
<1>6. alerts \in {n.afterSpeeding, n.alerts}
  BY <1>2, Zenon DEF Follows, SeenAlerts
<1>7. r = InactivityWrite(alerts, in, c)
<2> HIDE DEF in, c
<2> QED
  BY <1>4 DEF InactivityWrite
<1> HIDE DEF n, in
<1>8. r.ok /\ r.alerts = n.alerts
<2> HIDE DEF r, c
<2> QED
  BY <1>5, <1>6, <1>7, Zenon DEF Repeats
<1>9. /\ alerts' = r.alerts /\ task' = [task EXCEPT !.pc = "complete"]
      /\ UNCHANGED <<journal, checkpoint, settings, changed, memory, env>>
  BY <1>8, Zenon DEF WriteInactivity
<1> HIDE DEF r
<1>10. /\ task'.pc = "complete" /\ task'.target = task.target /\ task'.rows = task.rows
       /\ task'.speeding = task.speeding /\ task'.inactivity = task.inactivity
  BY <1>1, <1>9
<1>11. FixedWorld'
  BY <1>2, <1>9, <1>10, WorldKept DEF Follows
<1>12. SeenSound'
  BY <1>9, SoundKept DEF Follows
<1>13. SeenMemory'
  BY <1>2, <1>9, <1>10, AfterKept DEF Follows, Afterwards
<1>14. Current' = c /\ SeenNext(c)' = n /\ Seen' = Seen /\ Pending' = Pending /\ NextRow' = {c}
<2>1. Current' = c /\ NextRow' = NextRow /\ Pending' = Pending
  BY <1>9, <1>10, SameRows DEF Current, NextRow
<2>2. SeenNext(c)' = SeenNext(c) /\ Seen' = Seen
  BY <1>9, <2>1, SameSeen
<2> QED
  BY <1>3, <2>1, <2>2 DEF n
<1>15. SeenAlerts'
<2>1. alerts' = n.alerts
  BY <1>8, <1>9
<2>2. \A t \in NextRow' : SeenNext(t)' = n
<3>1. \A t \in NextRow' : t = Current /\ SeenNext(t)' = SeenNext(t)
  BY <1>9, <1>14, SameSeen
<3> QED
  BY <3>1 DEF n
<2>3. SeenNext(Current)' = n
  BY <1>14
<2>4. Pending' # {} /\ task'.pc # "writeInactivity"
  BY <1>3, <1>10, <1>14
<2> QED
  BY <2>1, <2>2, <2>3, <2>4 DEF SeenAlerts
<1> QED
  BY <1>11, <1>12, <1>13, <1>15 DEF Follows

\* A row that counts takes the reference with it, any other leaves it.
LEMMA SeenGoes ==
    ASSUME IInv, SeenSound, NEW t \in Pending,
           journal' = [journal EXCEPT ![t].processed = TRUE, ![t].eligible = Latest(Eligible) < t],
           UNCHANGED settings
    PROVE  /\ Latest(Eligible) < t => Seen' = SeenNext(t) /\ Latest(Eligible)' = t
           /\ ~(Latest(Eligible) < t) => Seen' = Seen /\ Latest(Eligible)' = Latest(Eligible)
           /\ Pending' = Pending \ {t}
<1> DEFINE counts == Latest(Eligible) < t
           f == Fixes(Eligible)
           g == [u \in Eligible \union {t} |-> Observation(u)]
<1>1. RowsTyped /\ counts \in BOOLEAN
  BY DEF IInv, Types
<1>2. /\ Pending' = Pending \ {t} /\ Eligible' = IF counts THEN Eligible \union {t} ELSE Eligible
      /\ journal'[t].kph = journal[t].kph /\ journal'[t].pos = journal[t].pos
      /\ \A u \in Journaled : u # t => journal'[u] = journal[u]
<2> HIDE DEF counts
<2>1. journal' = [journal EXCEPT ![t].processed = TRUE, ![t].eligible = counts]
  BY DEF counts
<2> QED
  BY <1>1, <2>1, RowDone
<1>3. \A u \in Journaled : Observation(u)' = Observation(u)
<2> SUFFICES ASSUME NEW u \in Journaled
             PROVE  [at |-> u, kph |-> journal'[u].kph, pos |-> journal'[u].pos]
                      = [at |-> u, kph |-> journal[u].kph, pos |-> journal[u].pos]
  BY DEF Observation
<2> QED
  BY <1>2
<1>4. /\ Latest(Eligible) \in Nat /\ DOMAIN f = Eligible /\ \A u \in Eligible : f[u] = Observation(u)
      /\ Eligible \subseteq Times /\ Eligible \subseteq Journaled /\ t \in Journaled /\ t \in Times
  BY SeenIs DEF Eligible, Pending
<1>5. CASE counts
<2>1. Eligible' = Eligible \union {t}
  BY <1>2, <1>5
<2>2. Fixes(Eligible)' = g
<3>1. [u \in Eligible' |-> Observation(u)'] = [u \in Eligible \union {t} |-> Observation(u)]
  BY <1>3, <1>4, <2>1
<3> QED
  BY <3>1 DEF Fixes
<2>3. Latest(Eligible \union {t}) = t
  BY <1>4, <1>5, LatestGrows
<2>4. \A u \in Eligible : u < t
<3>1. \A u \in Eligible : u \in Nat /\ u <= Latest(Eligible)
  BY <1>4, LatestIs, TimesAreNat
<3> QED
  BY <1>4, <1>5, <3>1, TimesAreNat
<2>5. DOMAIN g = DOMAIN f \union {t} /\ g[t] = Observation(t) /\ \A u \in DOMAIN f : u < t /\ g[u] = f[u]
  BY <1>4, <2>4
<2>6. Reference(g, settings) = ReferenceStep(Reference(f, settings), g[t], settings)
<3> HIDE DEF f, g
<3> QED
  BY <1>4, <2>5, ReferenceAppends
<2>7. Seen' = Reference(g, settings)
<3> HIDE DEF g
<3> QED
  BY <2>2, Zenon DEF Seen
<2>8. Seen' = SeenNext(t)
<3> HIDE DEF g
<3> QED
  BY <2>5, <2>6, <2>7, Zenon DEF SeenNext, Seen, f
<2>9. Latest(Eligible)' = t
  BY <2>1, <2>3, Zenon DEF Latest
<2> QED
  BY <1>2, <1>5, <2>8, <2>9
<1>6. CASE ~counts
<2>1. Eligible' = Eligible
  BY <1>2, <1>6
<2>2. Fixes(Eligible)' = Fixes(Eligible)
<3>1. [u \in Eligible' |-> Observation(u)'] = [u \in Eligible |-> Observation(u)]
  BY <1>3, <1>4, <2>1
<3> QED
  BY <3>1 DEF Fixes
<2>3. Seen' = Seen
  BY <2>2, Zenon DEF Seen
<2>4. Latest(Eligible)' = Latest(Eligible)
  BY <2>1, Zenon DEF Latest
<2> QED
  BY <1>2, <1>6, <2>3, <2>4
<1> QED
  BY <1>5, <1>6

LEMMA CompleteFollows ==
    ASSUME IInv, Follows, Complete
    PROVE  Follows'
<1> DEFINE c == Current
           n == SeenNext(c)
           last == Latest(Eligible)
<1>1. DOMAIN task = {"pc", "target", "rows", "snapshot", "speeding", "inactivity"}
      /\ DOMAIN memory = {"ready", "frontier", "speeding", "inactivity"}
  BY DEF IInv, Types, WorkTyped
<1>2. task.pc = "complete" /\ MidRow /\ Afterwards /\ memory.ready
  BY DEF Complete, MidRow, Afterwards, IInv, MemoryKnows
<1>3. c \in Times /\ c \in Pending /\ task.rows = {t \in Pending : t <= task.target}
  BY <1>2, NextInHand
<1>4. last \in Nat /\ LatestEligible = last /\ settings \in Policies
  BY SeenIs
<1>5. /\ n.speeding = SpeedingOf(c).state /\ n.inactivity = InactivityOf(c).state
      /\ last < c => SoundAt(n, c, settings) /\ n.speeding.fp = Fingerprint(settings)
      /\ ~(last < c) => /\ n.speeding = Seen.speeding /\ n.inactivity = Seen.inactivity
                        /\ n.alerts = Seen.alerts
  BY <1>3, NextIs DEF Follows
<1>6. memory.speeding = n.speeding /\ memory.inactivity = n.inactivity /\ alerts = n.alerts
<2>1. memory.speeding = SpeedingOf(c).state
  BY <1>2, Zenon DEF Follows, SeenMemory
<2>2. memory.inactivity = InactivityOf(c).state
  BY <1>2, Zenon DEF Follows, SeenMemory
<2>3. alerts = n.alerts
  BY <1>2, Zenon DEF Follows, SeenAlerts
<2> QED
  BY <1>5, <2>1, <2>2, <2>3
<1>7. SoundAt(Seen, last, settings) /\ checkpoint = Seen.speeding
      /\ (checkpoint = NoSpeeding \/ checkpoint.fp = Fingerprint(settings))
  BY DEF Follows, SeenSound
<1>8. ReplayEligible(c) = (last < c)
<2>1. memory.frontier = last
  BY <1>2, <1>4 DEF IInv, MemoryKnows
<2>2. (c > last) = (last < c)
  BY <1>3, <1>4, TimesAreNat
<2> QED
  BY <2>1, <2>2 DEF ReplayEligible
<1> HIDE DEF n, last
<1>9. Acceptable(checkpoint, memory.speeding)
<2>1. CASE last < c
<3>1. checkpoint.last = last /\ n.speeding.last = c
  BY <1>5, <1>7, <2>1 DEF SoundAt
<3> QED
  BY <1>6, <2>1, <3>1 DEF Acceptable
<2>2. CASE ~(last < c)
  BY <1>5, <1>6, <1>7, <2>2 DEF Acceptable
<2> QED
  BY <2>1, <2>2
<1> DEFINE left == task.rows \ {c}
<1>10. /\ checkpoint' = n.speeding
       /\ journal' = [journal EXCEPT ![c].processed = TRUE, ![c].eligible = last < c]
       /\ memory' = [memory EXCEPT !.frontier = IF last < c THEN c ELSE @]
       /\ task' = IF left = {} THEN Idle ELSE [task EXCEPT !.rows = left, !.pc = FirstStep(memory)]
       /\ UNCHANGED <<alerts, settings, changed, env>>
  BY <1>6, <1>8, <1>9, Zenon DEF Complete
<1>11. /\ last < c => Seen' = n /\ Latest(Eligible)' = c
       /\ ~(last < c) => Seen' = Seen /\ Latest(Eligible)' = last
       /\ Pending' = Pending \ {c}
<2>1. /\ Latest(Eligible) < c => Seen' = SeenNext(c) /\ Latest(Eligible)' = c
      /\ ~(Latest(Eligible) < c) => Seen' = Seen /\ Latest(Eligible)' = Latest(Eligible)
      /\ Pending' = Pending \ {c}
<3>1. journal' = [journal EXCEPT ![c].processed = TRUE, ![c].eligible = Latest(Eligible) < c]
      /\ UNCHANGED settings /\ SeenSound
  BY <1>10 DEF last, Follows
<3> HIDE DEF c
<3> QED
  BY <1>3, <3>1, SeenGoes
<2> QED
  BY <2>1 DEF n, last
<1>12. Seen'.speeding = n.speeding /\ Seen'.inactivity = n.inactivity /\ Seen'.alerts = n.alerts
  BY <1>5, <1>11
<1>13. SeenSound'
<2>1. SoundAt(Seen', Latest(Eligible)', settings')
<3>1. CASE last < c
<4>1. Seen' = n /\ Latest(Eligible)' = c /\ settings' = settings /\ SoundAt(n, c, settings)
  BY <1>5, <1>10, <1>11, <3>1
<4> QED
  BY <4>1, Zenon
<3>2. CASE ~(last < c)
<4>1. Seen' = Seen /\ Latest(Eligible)' = last /\ settings' = settings
  BY <1>10, <1>11, <3>2
<4> QED
  BY <1>7, <4>1, Zenon
<3> QED
  BY <3>1, <3>2
<2>2. checkpoint' = Seen'.speeding
  BY <1>10, <1>12
<2>3. checkpoint' = NoSpeeding \/ checkpoint'.fp = Fingerprint(settings')
<3>1. CASE last < c
  BY <1>5, <1>10, <3>1, Zenon
<3>2. CASE ~(last < c)
<4>1. checkpoint' = checkpoint /\ settings' = settings
  BY <1>5, <1>7, <1>10, <3>2
<4> QED
  BY <1>7, <4>1, Zenon
<3> QED
  BY <3>1, <3>2
<2> QED
  BY <2>1, <2>2, <2>3, Zenon DEF SeenSound
<1>14. task'.pc \in {"idle", "detectSpeeding"} /\ (left = {} => task'.pc = "idle")
  BY <1>1, <1>2, <1>10, IdleIs DEF FirstStep
<1>15. SeenMemory'
<2>1. ~MidRow' /\ ~Afterwards' /\ task'.pc \notin {"restore", "prime"}
  BY <1>14 DEF MidRow, Afterwards
<2>2. memory'.speeding = memory.speeding /\ memory'.inactivity = memory.inactivity
  BY <1>1, <1>10
<2> QED
  BY <1>6, <1>12, <2>1, <2>2 DEF SeenMemory
<1>16. FixedWorld'
<2>1. changed' = {} /\ env' = env
  BY <1>10 DEF Follows, FixedWorld
<2>2. ASSUME env.late PROVE env.faults = 0 /\ Pending' = {} /\ task'.pc = "idle"
<3>1. Pending = {task.target} /\ env.faults = 0
  BY <1>2, <2>2 DEF Follows, FixedWorld
<3>2. Pending' = {}
  BY <1>3, <1>11, <3>1
<3>3. left = {}
  BY <1>3, <3>1
<3> QED
  BY <1>14, <3>1, <3>2, <3>3
<2> QED
  BY <2>1, <2>2 DEF FixedWorld
<1>17. SeenAlerts'
<2>1. alerts' = Seen'.alerts /\ task'.pc \notin {"writeInactivity", "complete"}
  BY <1>6, <1>10, <1>12, <1>14
<2> QED
  BY <2>1 DEF SeenAlerts
<1> QED
  BY <1>13, <1>15, <1>16, <1>17 DEF Follows

\* The choices of an environment never change.
LEMMA ChoicesStay ==
    ASSUME WorldTyped, [Next]_vars
    PROVE  env'.choices = env.choices
<1>1. DOMAIN env = {"policy", "payloads", "choices", "late", "last", "faults", "changes"}
  BY DEF WorldTyped, Environment
<1>2. env' = env \/ (\E x : env' = [env EXCEPT !.faults = x]) \/ (\E x : env' = [env EXCEPT !.changes = x])
  BY DEF Next, Handler, Redeliver, Deliver, Drain, Bootstrap, Restore, Prime, EvaluateSpeeding,
     EvaluateInactivity, WriteSpeeding, WriteInactivity, Complete, Fail, LoseInsertAnswer, Restart,
     CommitSettings, NotifySettings, vars
<1> QED
  BY <1>1, <1>2

LEMMA StepFollows ==
    ASSUME IInv, SeenKnows, [Next]_vars
    PROVE  SeenKnows'
<1>1. WorldTyped' /\ Steady /\ env'.choices = env.choices
  BY WorldStep, ChoicesStay DEF IInv, Types
<1> SUFFICES ASSUME env.choices = {}, Follows PROVE Follows'
  BY <1>1 DEF SeenKnows
<1>2. ASSUME NEW t \in Times, NEW p \in env.payloads, Deliver(t, p) PROVE Follows'
  BY <1>2, DeliverFollows
<1>3. ASSUME NEW t \in Times, Redeliver(t) PROVE Follows'
  BY <1>3, RedeliverFollows
<1>4. CASE Drain
  BY <1>4, DrainFollows
<1>5. CASE Bootstrap
  BY <1>5, BootstrapFollows
<1>6. CASE Restore
  BY <1>6, RestoreFollows
<1>7. CASE Prime
  BY <1>7, PrimeFollows
<1>8. CASE EvaluateSpeeding
  BY <1>8, EvaluateSpeedingFollows
<1>9. CASE EvaluateInactivity
  BY <1>9, EvaluateInactivityFollows
<1>10. CASE WriteSpeeding
  BY <1>10, WriteSpeedingFollows
<1>11. CASE WriteInactivity
  BY <1>11, WriteInactivityFollows
<1>12. CASE Complete
  BY <1>12, CompleteFollows
<1>13. CASE Fail \/ Restart
  BY <1>1, <1>13, FailFollows
<1>14. CASE LoseInsertAnswer
  BY <1>1, <1>14, LoseInsertAnswerFollows
<1>15. ASSUME NEW s \in Policies, CommitSettings(s) PROVE Follows'
  BY <1>15 DEF CommitSettings
<1>16. CASE NotifySettings
  BY <1>16 DEF NotifySettings, Follows, FixedWorld
<1>17. CASE UNCHANGED vars
<2>1. /\ task' = task /\ memory' = memory
      /\ UNCHANGED <<journal, checkpoint, alerts, settings, changed, env>>
  BY <1>17 DEF vars
<2>2. SeenSound' /\ SeenAlerts'
  BY <2>1, SoundKept, AlertsKept DEF Follows
<2>3. FixedWorld'
  BY <2>1, SameRows DEF Follows, FixedWorld
<2>4. SeenMemory'
<3>1. Current' = Current /\ (MidRow' <=> MidRow) /\ (Afterwards' <=> Afterwards)
  BY <2>1 DEF Current, MidRow, Afterwards
<3>2. Seen' = Seen /\ SpeedingOf(Current)' = SpeedingOf(Current) /\ InactivityOf(Current)' = InactivityOf(Current)
  BY <2>1, <3>1, SameSeen
<3> QED
  BY <2>1, <3>1, <3>2 DEF Follows, SeenMemory
<2> QED
  BY <2>2, <2>3, <2>4 DEF Follows
<1> QED
  BY <1>2, <1>3, <1>4, <1>5, <1>6, <1>7, <1>8, <1>9, <1>10, <1>11, <1>12, <1>13, <1>14, <1>15,
     <1>16, <1>17 DEF Next, Handler

LEMMA InitFollows ==
    ASSUME FailuresOrLateFixes, Init
    PROVE  SeenKnows
<1> SUFFICES ASSUME env.choices = {} PROVE Follows
  BY DEF SeenKnows
<1>1. env \in Environments /\ journal = <<>> /\ checkpoint = NoSpeeding /\ alerts = NoAlerts
      /\ changed = {} /\ memory = Forgotten /\ task = Idle
  BY DEF Init
<1>2. Pending = {} /\ Eligible = {} /\ NextRow = {}
  BY <1>1 DEF Pending, Eligible, Journaled, NextRow
<1>3. FixedWorld
<2>1. ~env.late \/ env.faults = 0
  BY <1>1 DEF FailuresOrLateFixes
<2> QED
  BY <1>1, <1>2, <2>1, IdleIs DEF FixedWorld
<1>4. Seen = NothingSeen
<2>1. DOMAIN Fixes(Eligible) = {}
  BY <1>2 DEF Fixes
<2> QED
  BY <2>1, ReferenceOfNone DEF Seen
<1>5. /\ Seen.speeding = NoSpeeding /\ Seen.inactivity = NoInactivity /\ Seen.alerts = NoAlerts
  BY <1>4 DEF NothingSeen
<1>6. SeenSound
<2>1. Latest(Eligible) = 0
  BY <1>2 DEF Latest
<2>2. Settled(Seen.alerts, 0)
<3>1. /\ Shaped(NoAlerts) /\ \A k \in AlertTypes : DOMAIN NoAlerts.events[k] = {} /\ DOMAIN NoAlerts.receipts[k] = {}
  BY DEF NoAlerts, Shaped
<3> HIDE DEF NoAlerts
<3> QED
  BY <1>5, <3>1 DEF Settled, AlertsTyped, AlertsAgree, Disjoint, Upto
<2>3. Seen.speeding.last = 0 /\ Seen.speeding.streak = 0 /\ Seen.speeding.confirmed = FALSE
  BY <1>5 DEF NoSpeeding, Blank
<2>4. Seen.speeding.confirmed \in BOOLEAN /\ ~Seen.speeding.confirmed
  BY <2>3, Zenon
<2>5. Seen.inactivity.last = 0 /\ 0 \in Nat
  BY <1>5 DEF NoInactivity
<2>6. SoundAt(Seen, 0, settings)
  BY <1>5, <2>2, <2>3, <2>4, <2>5, Zenon DEF SoundAt
<2> QED
  BY <1>1, <1>5, <2>1, <2>6 DEF SeenSound
<1>7. SeenMemory
<2>1. task.pc = "idle" /\ memory.ready = FALSE
  BY <1>1, IdleIs DEF Forgotten
<2> QED
  BY <2>1 DEF SeenMemory, MidRow, Afterwards
<1>8. SeenAlerts
<2>1. task.pc = "idle"
  BY <1>1, IdleIs
<2> QED
  BY <1>1, <1>2, <1>5, <2>1 DEF SeenAlerts
<1> QED
  BY <1>3, <1>6, <1>7, <1>8 DEF Follows

\* While the settings are fixed, the pipeline follows the reference.
THEOREM FollowsTheReference == FailuresOrLateFixes /\ Spec => []SeenKnows
<1>1. FailuresOrLateFixes /\ Init => SeenKnows
  BY InitFollows
<1>2. IInv /\ SeenKnows /\ [Next]_vars => SeenKnows'
  BY StepFollows
<1> QED
  BY <1>1, <1>2, Invariance, PTL DEF Spec

\* The reference after the next row too.
LEMMA FollowsExactly ==
    ASSUME IInv, SeenKnows
    PROVE  ExactlyOnce
<1> SUFFICES ASSUME env.choices = {}
             PROVE  LET next == Reference(Fixes(Eligible \union NextRow), settings) IN
                    checkpoint = Seen.speeding /\ alerts \in {Seen.alerts, next.afterSpeeding, next.alerts}
  BY Zenon DEF ExactlyOnce, Seen
<1>1. Follows
  BY DEF SeenKnows
<1>2. checkpoint = Seen.speeding
  BY <1>1 DEF Follows, SeenSound
<1> DEFINE next == Reference(Fixes(Eligible \union NextRow), settings)
<1>3. CASE Pending = {}
  BY <1>1, <1>2, <1>3 DEF Follows, SeenAlerts
<1>4. CASE Pending # {}
<2> DEFINE t == Min(Pending)
           f == Fixes(Eligible)
           g == Fixes(Eligible \union {t})
<2>1. /\ Latest(Eligible) \in Nat /\ DOMAIN f = Eligible /\ \A u \in Eligible : f[u] = Observation(u)
      /\ Eligible \subseteq Times /\ Pending \subseteq Times
  BY SeenIs
<2>2. t \in Pending /\ t \in Times /\ NextRow = {t}
  BY <1>4, <2>1, MinIs DEF NextRow
<2> HIDE DEF t
<2>3. alerts \in {Seen.alerts, SeenNext(t).afterSpeeding, SeenNext(t).alerts}
  BY <1>1, <2>2 DEF Follows, SeenAlerts
<2>4. CASE Latest(Eligible) < t
<3>1. \A u \in Eligible : u < t
<4>1. \A u \in Eligible : u \in Nat /\ u <= Latest(Eligible)
  BY <2>1, LatestIs, TimesAreNat
<4> QED
  BY <2>1, <2>2, <2>4, <4>1, TimesAreNat
<3>2. DOMAIN g = Eligible \union {t} /\ \A u \in Eligible \union {t} : g[u] = Observation(u)
  BY DEF Fixes
<3>3. Reference(g, settings) = ReferenceStep(Reference(f, settings), g[t], settings)
<4> HIDE DEF f, g
<4> QED
  BY <2>1, <2>2, <3>1, <3>2, ReferenceAppends
<3>4. next = SeenNext(t)
<4>1. next = Reference(g, settings) /\ g[t] = Observation(t)
  BY <2>2, <3>2
<4> HIDE DEF g, next
<4> QED
  BY <3>3, <4>1, Zenon DEF SeenNext, Seen, f
<3> HIDE DEF next
<3>5. checkpoint = Seen.speeding /\ alerts \in {Seen.alerts, next.afterSpeeding, next.alerts}
  BY <1>2, <2>3, <3>4
<3> QED
  BY <3>5 DEF next
<2>5. CASE ~(Latest(Eligible) < t)
<3>1. SeenNext(t).alerts = Seen.alerts /\ SeenNext(t).afterSpeeding = Seen.alerts
  BY <1>1, <2>2, <2>5, NextIs DEF Follows
<3>2. alerts = Seen.alerts
  BY <2>3, <3>1
<3> QED
  BY <1>2, <3>2
<2> QED
  BY <2>4, <2>5
<1> QED
  BY <1>3, <1>4

\* With the settings fixed and failures or late fixes, not both, the alerts and
\* the checkpoint are those of one uninterrupted run over the rows: no restart,
\* retry or lost answer shows, and no write is missed or made twice.
THEOREM RestartsAreInvisible == FailuresOrLateFixes /\ Spec => []ExactlyOnce
<1>1. IInv /\ SeenKnows => ExactlyOnce
  BY FollowsExactly
<1> QED
  BY <1>1, FollowsTheReference, Invariance, PTL

\* Under the same hypothesis a vehicle that was rebuilt holds the detector
\* states of that run: the rows of one window, and one before them, rebuild
\* what all rows would have built.
THEOREM MemoryIsRebuilt == FailuresOrLateFixes /\ Spec => []MemoryIsReference
<1>1. SeenKnows => MemoryIsReference
<2> SUFFICES ASSUME SeenKnows, env.choices = {}, memory.ready, task.pc \in {"idle", "drain"}
             PROVE  memory.speeding = Seen.speeding /\ memory.inactivity = Seen.inactivity
  BY Zenon DEF MemoryIsReference, Seen
<2>1. ~MidRow /\ ~Afterwards
  BY DEF MidRow, Afterwards
<2> QED
  BY <2>1 DEF SeenKnows, Follows, SeenMemory
<1> QED
  BY <1>1, FollowsTheReference, PTL
=============================================================================
