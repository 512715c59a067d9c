------------------------------ MODULE AlertReplay ------------------------------
(***************************************************************************)
(* What the alert pipeline promises: its durable state is the one a single *)
(* uninterrupted run of both rules over the journal would have left, and   *)
(* no row, event or receipt is lost, doubled or reordered on the way.      *)
(***************************************************************************)
EXTENDS AlertIngestion

\* One type invariant for the module.
TypeOK ==
    /\ Journaled \subseteq Times
    /\ \A t \in Journaled :
         /\ [kph |-> journal[t].kph, pos |-> journal[t].pos] \in env.payloads
         /\ journal[t].eligible => journal[t].processed
    /\ checkpoint.last \in Times \cup {0}
    /\ \A k \in AlertTypes :
         /\ DOMAIN alerts.events[k] \subseteq DOMAIN alerts.receipts[k]
         /\ DOMAIN alerts.receipts[k] \subseteq Journaled
    /\ settings \in Policies
    /\ changed \subseteq {"speeding", "inactivity"}
    /\ memory.frontier \in Times \cup {0}
    /\ task.rows \subseteq Journaled
    /\ task.pc \in {"idle", "drain", "bootstrap", "restore", "prime", "detectSpeeding",
                    "detectInactivity", "writeSpeeding", "writeInactivity", "complete"}
    /\ task.pc \notin {"idle", "drain"} => task.rows # {}
-----------------------------------------------------------------------------
(***************************************************************************)
(* The reference: both rules run over a set of rows in time order, without *)
(* a checkpoint, a restart or a retry, under settings s.                   *)
(***************************************************************************)
ReferenceStep(ref, obs, s) ==
    LET sp == DetectSpeeding(ref.speeding, obs, s)
        in == DetectInactivity(ref.inactivity, obs, s)
        a  == Process(ref.alerts, "SPEEDING", sp.status, obs.at, sp.state.streak,
                      sp.state.confirmedAt).alerts
        b  == Process(a, "INACTIVITY", in.status, obs.at, 0, 0).alerts
    IN  [speeding |-> sp.state, inactivity |-> in.state, afterSpeeding |-> a, alerts |-> b]

NothingSeen == [speeding |-> NoSpeeding, inactivity |-> NoInactivity,
                afterSpeeding |-> NoAlerts, alerts |-> NoAlerts]

Reference(fixes, s) ==
    LET run[t \in 0..MaxTime] ==
            IF t = 0 THEN NothingSeen
            ELSE IF t \in DOMAIN fixes THEN ReferenceStep(run[t-1], fixes[t], s)
            ELSE run[t-1]
    IN  run[MaxTime]

\* The oldest pending row, the one a retry applies next.
NextRow == IF Pending = {} THEN {} ELSE {Min(Pending)}

\* While the settings are fixed, the environments bring failures or late fixes,
\* not both.
FailuresOrLateFixes == \A e \in Environments : e.choices = {} => ~e.late \/ e.faults = 0

\* With the settings fixed, restarts and retries are invisible: the checkpoint
\* is the reference's state, and the alert events are the reference's after the
\* processed rows, or ahead of them by the writes of the one row in progress.
ExactlyOnce ==
    env.choices = {} =>
        LET done == Reference(Fixes(Eligible), settings)
            next == Reference(Fixes(Eligible \cup NextRow), settings)
        IN  /\ checkpoint = done.speeding
            /\ alerts \in {done.alerts, next.afterSpeeding, next.alerts}

\* A vehicle that is ready holds in memory what the reference holds: the
\* checkpoint restored the speeding state, and the window of rows before the
\* frontier, with one row before it, was enough to rebuild the inactivity
\* state with its whole window.
MemoryIsReference ==
    env.choices = {} /\ memory.ready /\ task.pc \in {"idle", "drain"} =>
        LET done == Reference(Fixes(Eligible), settings)
        IN  /\ memory.speeding = done.speeding
            /\ memory.inactivity = done.inactivity
-----------------------------------------------------------------------------
(***************************************************************************)
(* What holds under late fixes, failures and settings changes alike.       *)
(***************************************************************************)
\* The checkpoint and the journal marks are one transaction: the checkpoint
\* stands at the newest row that counts for a replay, so a restart neither
\* skips nor repeats a sample of a streak.
CheckpointAtFrontier == checkpoint.last = LatestEligible

\* A checkpoint that says an episode was confirmed is never ahead of the
\* confirmation itself: a restart that hydrates it goes on to update an event
\* that was registered, and never silently swallows the alert.
ConfirmedIsRegistered ==
    checkpoint.confirmed =>
        /\ checkpoint.confirmedAt \in DOMAIN alerts.receipts["SPEEDING"]
        /\ alerts.receipts["SPEEDING"][checkpoint.confirmedAt].streak = checkpoint.streak

\* With fixes in order, two events of a kind never cover the same moment, and
\* one is open at most.
EpisodesDisjoint ==
    ~env.late => \A k \in AlertTypes : \A a, b \in DOMAIN alerts.events[k] :
        a < b => /\ alerts.events[k][a].status = "RESOLVED"
                 /\ alerts.events[k][a].resolved <= b

\* A streak counts consecutive samples of one policy: every row the replay
\* would use from its start to the checkpoint was above the limit of the zone
\* it began in, under the settings whose fingerprint the checkpoint carries,
\* and each of them is counted exactly once.
StreakIsContiguous ==
    checkpoint.count > 0 =>
        LET streak == {t \in Eligible : t >= checkpoint.streak}
        IN  /\ checkpoint.streak \in Eligible
            /\ checkpoint.count = Cardinality(streak)
            /\ \A t \in streak : /\ Context(checkpoint.fp, journal[t].pos) = checkpoint.ctx
                                 /\ journal[t].kph > checkpoint.ctx.threshold

\* What the checkpoint says is true: it stands at the frontier of the replay,
\* names a registered confirmation, and its streak is the one the rows have.
CheckpointIsTrue == CheckpointAtFrontier /\ ConfirmedIsRegistered /\ StreakIsContiguous

\* A track with one more fix.
Extended(track, t, fix) == Append(track, [at |-> t, pos |-> fix.pos])

\* The fixes of a vehicle up to a time, in their order.
Track(fixes, at) ==
    LET upto[t \in 0..MaxTime] ==
            IF t = 0 THEN <<>>
            ELSE IF t \in DOMAIN fixes THEN Extended(upto[t-1], t, fixes[t])
            ELSE upto[t-1]
    IN  upto[at]

\* The same as one inactivity window.
Window(t, s) == TrimHistory(Track(Fixes(Journaled), t), t - s.dur)

Chosen == {env.policy} \cup env.choices

\* A confirmed speeding is one the fixes justify under a policy that was chosen:
\* enough consecutive samples above the limit.
SpeedingJustified ==
    \A c \in DOMAIN alerts.receipts["SPEEDING"] : \E s \in Chosen :
        LET samples == {t \in Journaled : alerts.receipts["SPEEDING"][c].streak <= t /\ t <= c}
        IN  /\ s.speedOn /\ s.fence /\ Cardinality(samples) >= s.confirm
            /\ \A t \in samples : journal[t].kph > Context(s, journal[t].pos).threshold

\* So is a confirmed inactivity: a whole window without the distance.
InactivityJustified ==
    \A c \in DOMAIN alerts.receipts["INACTIVITY"] : \E s \in Chosen :
        /\ s.idleOn /\ Window(c, s)[1].at <= c - s.dur
        /\ ~TravelledReaches(Window(c, s), c - s.dur, s.dist)

\* With fixes in order, settings that change between the two detections of a
\* row, or while a restart rebuilds the detectors, never mix two policies.
AlertsJustified == ~env.late => SpeedingJustified /\ InactivityJustified

\* A receipt's last speeding point never runs past the event it belongs to.
ReceiptWithinEvent ==
    \A r \in DOMAIN alerts.receipts["SPEEDING"] :
        LET receipt == alerts.receipts["SPEEDING"][r]
        IN  receipt.lastSpeeding <= alerts.events["SPEEDING"][receipt.event].last

\* Events and receipts, which are rows of their own, agree: a receipt stays
\* within its event, and events of a kind cover different times.
EventsAreSound == ReceiptWithinEvent /\ EpisodesDisjoint

\* A row is processed only when every older row is: a retry never applies a
\* fix to detectors that have not seen the fixes before it.
DrainInOrder ==
    [][\A t \in Journaled' : journal'[t].processed =>
          \A u \in Journaled' : u < t /\ t \in Pending => journal'[u].processed]_vars

\* An event never moves back in time, and a resolved one never changes again.
EventsOnlyAdvance ==
    [][\A k \in AlertTypes : \A e \in DOMAIN alerts.events[k] :
          /\ e \in DOMAIN alerts'.events[k]
          /\ alerts.events[k][e].last <= alerts'.events[k][e].last
          /\ alerts.events[k][e].status = "RESOLVED" =>
                alerts'.events[k][e] = alerts.events[k][e]]_vars

\* Every journaled fix is evaluated in the end: a failed row is retried by a
\* later fleet cycle and cannot stand in the way of the rows after it.
EveryRowProcessed ==
    \A t \in Times : t \in Pending ~> t \notin Pending
=============================================================================
