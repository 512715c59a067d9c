----------------------------- MODULE AlertIngestion -----------------------------
(***************************************************************************)
(* The durable alert pipeline of one vehicle: a position fix is journaled, *)
(* the pending journal rows up to it are drained in time order through the *)
(* two detectors into the alert events, and each row is completed together *)
(* with the speeding checkpoint.  The detectors live in memory and are     *)
(* rebuilt from the checkpoint and the processed rows after a failure or a *)
(* restart.  Source: modules/alert-ingestion, modules/alert-evaluation and *)
(* fleet/fleet-alert-ingestion.service.ts; the rules and events it calls   *)
(* are in SpeedingDetector, InactivityDetector and AlertEvents.            *)
(*                                                                         *)
(* enqueueVehicle runs one task of a vehicle at a time and vehicles share  *)
(* no state but the settings, so one vehicle is modelled.  Every step below *)
(* is the code between two awaits of a database call; settings changes,    *)
(* failures and a restart of the process come in between.                  *)
(***************************************************************************)
EXTENDS SpeedingDetector, InactivityDetector, AlertEvents, SequencesExt

CONSTANTS
    MaxTime,       \* bound: fix times are 1..MaxTime
    Policies,      \* the settings there are
    Environments   \* what may happen to the pipeline, see below

\* An environment is the settings in force at the start, the [kph, pos] values
\* a fix may carry, the settings an administrator may choose (none if they are
\* fixed), whether the provider may report an older fix than before,
\* and the bounds: the last fix time, the failed database calls and restarts,
\* and the committed settings changes that are still to come.
ASSUME IngestionAssumption ==
    /\ MaxTime \in Nat \ {0}
    /\ \A s \in Policies : /\ s.confirm \in Nat \ {0} /\ s.dur \in Nat \ {0}
                          /\ s.limit \in [{"CITY", "OUTSIDE_CITY"} -> Nat]
    /\ Environments \subseteq
         [policy : Policies, payloads : (SUBSET [kph : Nat, pos : Int]) \ {{}}, choices : SUBSET Policies,
          late : BOOLEAN, last : 1..MaxTime, faults : Nat, changes : Nat]

Times == 1..MaxTime

VARIABLES
    journal,      \* fix time -> row, for the rows inserted so far (durable)
    checkpoint,   \* the speeding checkpoint, NoSpeeding before the first (durable)
    alerts,       \* the alert events and confirmation receipts (durable)
    settings,     \* the application settings row (durable)
    changed,      \* kinds of committed changes the notifier has not announced
    memory,       \* initializedVehicles, replayFrontiers and the detector states
    task,         \* the vehicle's running task and what its locals hold
    env           \* the environment and what is left of its bounds

vars == <<journal, checkpoint, alerts, settings, changed, memory, task, env>>

durable == <<journal, checkpoint, alerts>>
-----------------------------------------------------------------------------
\* A row: its immutable payload, processed_at IS NOT NULL, replay_eligible.
Row(p) == [kph |-> p.kph, pos |-> p.pos, processed |-> FALSE, eligible |-> FALSE]

Journaled == DOMAIN journal
Pending   == {t \in Journaled : ~journal[t].processed}
Eligible  == {t \in Journaled : journal[t].processed /\ journal[t].eligible}

\* The input a row replays to the detectors.
Observation(t) == [at |-> t, kph |-> journal[t].kph, pos |-> journal[t].pos]

Fixes(rows) == [t \in rows |-> Observation(t)]

\* A vehicle that is not initialized; resetVehicle.
Forgotten == [ready |-> FALSE, frontier |-> 0, speeding |-> NoSpeeding, inactivity |-> NoInactivity]

Idle == [pc |-> "idle", target |-> 0, rows |-> {}, snapshot |-> CHOOSE s \in Policies : TRUE,
         speeding |-> [status |-> "IGNORED", streak |-> 0, confirmedAt |-> 0],
         inactivity |-> "IGNORED"]

\* Mutant: the newest row first.
NewestRow == Max(task.rows)

\* The row the drain is at: ORDER BY observed_at ASC.
Current == Min(task.rows)

\* The next row of the drain bootstraps only a vehicle that is not initialized.
FirstStep(m) == IF m.ready THEN "detectSpeeding" ELSE "bootstrap"

Init ==
    /\ env \in Environments
    /\ journal = <<>> /\ checkpoint = NoSpeeding /\ alerts = NoAlerts
    /\ settings = env.policy /\ changed = {}
    /\ memory = Forgotten /\ task = Idle
-----------------------------------------------------------------------------
\* The fleet snapshot brings a fix.  An existing row with another payload is
\* an identity conflict and a processed one is ALREADY_PROCESSED; neither
\* changes anything, so the guards leave them out.
InOrder(t) == \A u \in Journaled : u <= t

Begin(t) == task' = [Idle EXCEPT !.pc = "drain", !.target = t]

\* ingestObservation, createOrFindObservation: CREATED.
Deliver(t, p) ==
    /\ task.pc = "idle"
    /\ t \notin Journaled /\ t <= env.last
    /\ env.late \/ InOrder(t)
    /\ journal' = Put(journal, t, Row(p))
    /\ Begin(t)
    /\ UNCHANGED <<checkpoint, alerts, settings, changed, memory, env>>

\* A later fleet cycle brings the same fix again: EXISTING and still pending.
Redeliver(t) ==
    /\ task.pc = "idle"
    /\ t \in Pending
    /\ env.late \/ InOrder(t)
    /\ Begin(t)
    /\ UNCHANGED <<durable, settings, changed, memory, env>>

\* findPendingThrough.
Drain ==
    /\ task.pc = "drain"
    /\ task' = [task EXCEPT !.rows = {t \in Pending : t <= task.target},
                            !.pc = FirstStep(memory)]
    /\ UNCHANGED <<durable, settings, changed, memory, env>>

\* bootstrapVehicleIfRequired, up to the settings snapshot.
Bootstrap ==
    /\ task.pc = "bootstrap"
    /\ memory' = [memory EXCEPT !.speeding = NoSpeeding, !.inactivity = NoInactivity]
    /\ task' = [task EXCEPT !.snapshot = settings, !.pc = "restore"]
    /\ UNCHANGED <<durable, settings, changed, env>>

LatestEligible == IF Eligible = {} THEN 0 ELSE Max(Eligible)

TrustedFrontier == Max({LatestEligible, checkpoint.last})

\* The speeding half: a checkpoint of the same settings at the frontier is
\* hydrated, any other leaves only its ordering.
Restored ==
    IF /\ checkpoint # NoSpeeding
       /\ checkpoint.fp = Fingerprint(task.snapshot)
       /\ checkpoint.last = TrustedFrontier
    THEN checkpoint
    ELSE IF TrustedFrontier # 0 THEN Blank(TrustedFrontier, Fingerprint(task.snapshot))
    ELSE memory.speeding

Restore ==
    /\ task.pc = "restore"
    /\ memory' = [memory EXCEPT !.speeding = Restored]
    /\ task' = [task EXCEPT !.pc = "prime"]
    /\ UNCHANGED <<durable, settings, changed, env>>

\* Mutant: no anchor before the window.
WindowRows == {t \in Eligible : t >= LatestEligible - task.snapshot.dur}

\* findInactivityReplayState: the window before the latest row and one anchor.
ReplayRows ==
    LET cutoff == LatestEligible - task.snapshot.dur
        before == {t \in Eligible : t < cutoff}
    IN  (IF before = {} THEN {} ELSE {Max(before)}) \cup {t \in Eligible : t >= cutoff}

\* Fixes replayed in time order through the inactivity rule alone.
Primed(st, fixes, s) ==
    LET step[t \in 0..MaxTime] ==
            IF t = 0 THEN st
            ELSE IF t \in DOMAIN fixes THEN DetectInactivity(step[t-1], fixes[t], s).state
            ELSE step[t-1]
    IN  step[MaxTime]

\* The inactivity half; the vehicle is initialized.
Prime ==
    /\ task.pc = "prime"
    /\ memory' = [memory EXCEPT !.inactivity = Primed(@, Fixes(ReplayRows), task.snapshot),
                                !.frontier = TrustedFrontier, !.ready = TRUE]
    /\ task' = [task EXCEPT !.pc = "detectSpeeding"]
    /\ UNCHANGED <<durable, settings, changed, env>>
-----------------------------------------------------------------------------
\* detectObservation: each detector reads the settings for itself.
EvaluateSpeeding ==
    /\ task.pc = "detectSpeeding"
    /\ LET d == DetectSpeeding(memory.speeding, Observation(Current), settings)
       IN  /\ memory' = [memory EXCEPT !.speeding = d.state]
           /\ task' = [task EXCEPT !.pc = "detectInactivity",
                         !.speeding = [status |-> d.status, streak |-> d.state.streak,
                                       confirmedAt |-> d.state.confirmedAt]]
    /\ UNCHANGED <<durable, settings, changed, env>>

EvaluateInactivity ==
    /\ task.pc = "detectInactivity"
    /\ LET d == DetectInactivity(memory.inactivity, Observation(Current), settings)
       IN  /\ memory' = [memory EXCEPT !.inactivity = d.state]
           /\ task' = [task EXCEPT !.pc = "writeSpeeding", !.inactivity = d.status]
    /\ UNCHANGED <<durable, settings, changed, env>>

\* Mutant: the detectors are not reset.
KeepDetectors == UNCHANGED memory /\ task' = Idle

\* The catch of ingestValidObservation: the row stays pending.
Abandon ==
    /\ memory' = Forgotten
    /\ task' = Idle

\* processSpeedingResult; the lifecycle call commits or throws.
WriteSpeeding ==
    /\ task.pc = "writeSpeeding"
    /\ LET r == Process(alerts, "SPEEDING", task.speeding.status, Current,
                        task.speeding.streak, task.speeding.confirmedAt)
       IN  IF r.ok
           THEN /\ alerts' = r.alerts
                /\ task' = [task EXCEPT !.pc = "writeInactivity"]
                /\ UNCHANGED memory
           ELSE Abandon /\ UNCHANGED alerts
    /\ UNCHANGED <<journal, checkpoint, settings, changed, env>>

\* processInactivityResult.
WriteInactivity ==
    /\ task.pc = "writeInactivity"
    /\ LET r == Process(alerts, "INACTIVITY", task.inactivity, Current, 0, 0)
       IN  IF r.ok
           THEN /\ alerts' = r.alerts
                /\ task' = [task EXCEPT !.pc = "complete"]
                /\ UNCHANGED memory
           ELSE Abandon /\ UNCHANGED alerts
    /\ UNCHANGED <<journal, checkpoint, settings, changed, env>>

\* The upsert's WHERE: a newer frontier, or the same one with the same fields.
Acceptable(stored, new) == stored = NoSpeeding \/ stored.last < new.last \/ stored = new

\* Mutant: a late row is replayed like any other.
AlwaysReplayed(t) == TRUE

\* replayEligible: a row behind the frontier is completed but never replayed.
ReplayEligible(t) == t > memory.frontier

\* The rest of processJournalObservation: the checkpoint is read from the
\* detector now, and stored with the row's mark in one transaction.
Complete ==
    /\ task.pc = "complete"
    /\ IF Acceptable(checkpoint, memory.speeding)
       THEN LET t        == Current
                eligible == ReplayEligible(t)
                left     == task.rows \ {t}
            IN  /\ checkpoint' = memory.speeding
                /\ journal' = [journal EXCEPT ![t].processed = TRUE, ![t].eligible = eligible]
                /\ memory' = [memory EXCEPT !.frontier = IF eligible THEN t ELSE @]
                /\ task' = IF left = {} THEN Idle
                           ELSE [task EXCEPT !.rows = left, !.pc = FirstStep(memory)]
       ELSE Abandon /\ UNCHANGED <<journal, checkpoint>>
    /\ UNCHANGED <<alerts, settings, changed, env>>
-----------------------------------------------------------------------------
\* A database call of the running task fails.  At the step after a write this
\* is also the write that committed and whose answer was lost.
Fail ==
    /\ env.faults > 0
    /\ task.pc # "idle"
    /\ Abandon
    /\ env' = [env EXCEPT !.faults = @ - 1]
    /\ UNCHANGED <<durable, settings, changed>>

\* The insert of createOrFindObservation commits and its answer is lost: this
\* is before the try block, so the detectors keep their state.
LoseInsertAnswer ==
    /\ env.faults > 0
    /\ task.pc = "drain"
    /\ task' = Idle
    /\ env' = [env EXCEPT !.faults = @ - 1]
    /\ UNCHANGED <<durable, settings, changed, memory>>

\* The process restarts; also the lost answer of a task's last transaction.
Restart ==
    /\ env.faults > 0
    /\ Abandon
    /\ changed' = {}
    /\ env' = [env EXCEPT !.faults = @ - 1]
    /\ UNCHANGED <<durable, settings>>

\* resetKinds.
Kinds(old, new) ==
    (IF Fingerprint(old) # Fingerprint(new) THEN {"speeding"} ELSE {}) \cup
    (IF <<old.idleOn, old.dist, old.dur>> # <<new.idleOn, new.dist, new.dur>>
     THEN {"inactivity"} ELSE {})

\* AdminSettingsService.update, up to its commit.
CommitSettings(s) ==
    /\ env.changes > 0
    /\ s \in env.choices /\ s # settings
    /\ settings' = s
    /\ changed' = changed \cup Kinds(settings, s)
    /\ env' = [env EXCEPT !.changes = @ - 1]
    /\ UNCHANGED <<durable, memory, task>>

\* Its notification of the detectors, after the commit.
NotifySettings ==
    /\ changed # {}
    /\ memory' = [memory EXCEPT
                    !.speeding = IF "speeding" \in changed THEN Invalidated(@) ELSE @,
                    !.inactivity = IF "inactivity" \in changed THEN NoInactivity ELSE @]
    /\ changed' = {}
    /\ UNCHANGED <<durable, settings, task, env>>
-----------------------------------------------------------------------------
Handler ==
    \/ Drain \/ Bootstrap \/ Restore \/ Prime
    \/ EvaluateSpeeding \/ EvaluateInactivity
    \/ WriteSpeeding \/ WriteInactivity \/ Complete

Next ==
    \/ \E t \in Times : Redeliver(t) \/ \E p \in env.payloads : Deliver(t, p)
    \/ Handler
    \/ Fail \/ LoseInsertAnswer \/ Restart
    \/ \E s \in Policies : CommitSettings(s)
    \/ NotifySettings

Spec == Init /\ [][Next]_vars

\* A started task runs on, a committed change is announced, and a pending fix
\* keeps being reported: the fleet interval polls the current position for ever.
FairSpec ==
    /\ Spec
    /\ WF_vars(Handler) /\ WF_vars(NotifySettings)
    /\ \A t \in Times : SF_vars(Redeliver(t))
=============================================================================
